---- MODULE Spec2Model ----
(***************************************************************************)
(* Model of the SkiWithCare data-build scripts (scripts/*.py): the geocode *)
(* caches, the nearest-resort scan with its maximum-distance filter and    *)
(* the four facility pipelines generate_data, fetch_cms_hospitals,         *)
(* fetch_osm_hospitals and build_hospitals.                                *)
(*                                                                         *)
(* Coordinates.  Every point of the model lies on one meridian.  On a      *)
(* common meridian dlambda = 0 and the haversine formula reduces to        *)
(* 2 r asin(|sin(dphi/2)|) = r |dphi|, so the distance is the length of    *)
(* the meridian arc between the two latitudes.  A latitude is written in   *)
(* units of one thousandth of a mile of meridian arc, a distance in        *)
(* thousandths of a mile; latitude 0 is the equator (0.0, which Python     *)
(* treats as false).  None is the Python None of a numeric field and       *)
(* NoName the None of a string field.                                      *)
(***************************************************************************)
EXTENDS Integers, Sequences, FiniteSets, TLC

VARIABLES
    \* ---- files on disk -------------------------------------------------
    resortsJson,        \* public/resorts.json   [exists, data]
    clinicsJson,        \* public/clinics.json   [exists, data]
    hospitalsJson,      \* public/hospitals.json [exists, data]
    resortCacheFile,    \* resort_geocoded_cache.json   (key -> entry)
    facilityCacheFile,  \* facility_geocoded_cache.json (ccn -> entry)
    hospitalCacheFile,  \* hospital_geocode_cache.json  (fid -> entry)
    corrupt,            \* the cache files that do not hold valid JSON
    \* ---- memory of the running script ----------------------------------
    script,             \* which script is running
    pc,                 \* its position
    idx,                \* loop index of the current stage
    cache,              \* geocoder.cache / cache of the current stage
    resorts,            \* fetch_cms_hospitals, fetch_osm_hospitals: resorts
    data,               \* geocode_resorts: data (rows of df_resorts)
    df_facilities,      \* main: df_facilities
    lats,               \* geocode_clinics: lats
    lons,               \* geocode_clinics: lons
    need_geocode,       \* fetch_cms_hospitals: need_geocode
    hospitals,          \* fetch_osm_hospitals: hospitals
    seen_ids,           \* fetch_osm_hospitals: seen_ids
    \* ---- observers (history of the run, not read by the scripts) --------
    session,            \* the script this behaviour runs and re-runs
    runs,               \* number of runs started
    nCalls,             \* external geocoding requests sent in this run
    calledKeys,         \* keys sent to an external geocoder in this run
    lastGeo,            \* what the last geocode() call did
    resolvedPrior,      \* keys resolved by an earlier run that was killed
    scanned,            \* facilities that reached the scan in this run
    failedKeys,         \* keys whose external resolution failed in this run
    dlFailed,           \* the facility-list download failed in this run
    outAtStart,         \* the three output files as they were at run start
    completed,          \* scripts that have run to completion
    clinicsIn,          \* resorts and clinics matched for clinics.json
    hospitalsIn,        \* resorts and hospitals matched for hospitals.json
    srcFailed,          \* a request for source data failed in this run
    inAtStart,          \* the input files of the script as at run start
    lastRun,            \* the last run that finished: its inputs and output
    prevRun,            \* the finished run before it
    lastReq,            \* the last request of this run to a geocoding host
    submitted,          \* the batches this run has sent to the batch geocoder
    erroredIds,         \* address ids of batches whose request raised, any run
    \* ---- inputs of a behaviour -----------------------------------------
    epic_list,          \* EPIC_RESORTS of the session's script
    ikon_list,          \* IKON_RESORTS of the session's script
    world,              \* the answers of the external services, if fixed
    \* ---- classify_provider ---------------------------------------------
    chain_name,         \* the argument of classify_provider
    provider            \* the value it returned

disk == <<resortsJson, clinicsJson, hospitalsJson,
          resortCacheFile, facilityCacheFile, hospitalCacheFile, corrupt>>
mem == <<script, pc, idx, cache, resorts, data, df_facilities, lats, lons,
         need_geocode,
         hospitals, seen_ids>>
obs == <<session, runs, nCalls, calledKeys, lastGeo, resolvedPrior, scanned,
         failedKeys, dlFailed, outAtStart, completed, clinicsIn, hospitalsIn,
         srcFailed, inAtStart, lastRun, prevRun, lastReq, submitted,
         erroredIds>>
hist == <<lastRun, prevRun>>
inputs == <<epic_list, ikon_list, world>>
pure == <<chain_name, provider>>
vars == <<disk, mem, obs, inputs, pure>>

(***************************************************************************)
(* Bounds of the model.                                                    *)
(***************************************************************************)
\* runs of the session's script in one behaviour
MaxRuns == 2
\* elements in one Overpass response
MaxElements == 1
\* fetch_cms_hospitals.BATCH_SIZE, scaled down
BATCH_SIZE == 2
\* geocode_clinics saves the cache every 100 rows, scaled down
ProgressEvery == 1
\* fragments a chain organization name is put together from
MaxFragments == 2
\* elements in the Overpass answer of fetch_osm_resorts
MaxResortElements == 2

(***************************************************************************)
(* Values.                                                                 *)
(***************************************************************************)
None == -1
NoName == "None"
Inf == 999999999

Lons == {-106}
TheLon == CHOOSE l \in Lons : TRUE
ResortLats == {149, 200149}
FacilityLats == {0, 149, 100149, 400150}

\* Python truthiness of a number-or-None
Truthy(x) == x # None /\ x # 0

Abs(x) == IF x < 0 THEN -x ELSE x

\* geocoder.haversine_miles, fetch_cms_hospitals.haversine and the copies in
\* build_hospitals and fetch_osm_hospitals, on a common meridian
haversine_miles(lat1, lon1, lat2, lon2) == Abs(lat2 - lat1)

\* Python round(x, ndigits) for a distance in thousandths of a mile: to a
\* multiple of 100 for ndigits = 1 and of 10 for ndigits = 2; halves go to the
\* even multiple; round(inf, n) is inf
round(x, ndigits) ==
    IF x = Inf THEN Inf
    ELSE LET q == IF ndigits = 1 THEN 100 ELSE 10
             r == x % q
             lo == x - r
         IN  IF 2 * r < q THEN lo
             ELSE IF 2 * r > q THEN lo + q
             ELSE IF (lo \div q) % 2 = 0 THEN lo ELSE lo + q

MAX_CLINIC_DISTANCE == 200 * 1000
CMS_MAX_DISTANCE_MILES == 200 * 1000
OSM_MAX_DISTANCE_MILES == 100 * 1000

\* Python's order on the strings that serve as sort keys
StrOrder == <<"", "Aspen", "Aspen Snowmass", "Aspen Valley Hospital", "Avon",
              "CO", "Clinic A", "Clinic B", "Hospital A", "Hospital B",
              "MI", "Mt Brighton", "Park City", "Park City Hospital",
              "Snow King", "TX", "Tremblant", "UT", "Vail",
              "Vail Health Hospital", "WY", "vail ">>
StrRank(s) == CHOOSE i \in 1..Len(StrOrder) : StrOrder[i] = s

SeqToSet(s) == {s[i] : i \in 1..Len(s)}

\* Python's "key in text" on strings
Contains(key, text) ==
    \E k \in 0..(Len(text) - Len(key)) : SubSeq(text, k + 1, k + Len(key)) = key

\* lexicographic order of two key tuples of equal length (Python tuple <)
RECURSIVE KeyLess(_, _)
KeyLess(a, b) ==
    IF a = <<>> THEN FALSE
    ELSE IF Head(a) # Head(b) THEN Head(a) < Head(b)
    ELSE KeyLess(Tail(a), Tail(b))

\* faulty variant of the sort: not stable, on every second run an element is
\* placed before the elements of equal key
RECURSIVE InsertByKeyRunOrder(_, _)
InsertByKeyRunOrder(sorted, x) ==
    IF sorted = <<>> THEN <<x>>
    ELSE IF \/ KeyLess(x.key, Head(sorted).key)
            \/ (runs % 2 = 0 /\ x.key = Head(sorted).key)
         THEN <<x>> \o sorted
    ELSE <<Head(sorted)>> \o InsertByKeyRunOrder(Tail(sorted), x)

\* list.sort on a sequence of [key, val] pairs: stable, an element is placed
\* after every element whose key is not greater
RECURSIVE InsertByKey(_, _)
InsertByKey(sorted, x) ==
    IF sorted = <<>> THEN <<x>>
    ELSE IF KeyLess(x.key, Head(sorted).key) THEN <<x>> \o sorted
    ELSE <<Head(sorted)>> \o InsertByKey(Tail(sorted), x)

\* faulty variant of the sort: the list is left as it is
SortPairsNot(s) == s

RECURSIVE SortPairs(_)
SortPairs(s) ==
    IF s = <<>> THEN <<>>
    ELSE InsertByKey(SortPairs(SubSeq(s, 1, Len(s) - 1)), s[Len(s)])

Vals(ps) == [i \in 1..Len(ps) |-> ps[i].val]

Put(c, k, v) == [x \in (DOMAIN c) \cup {k} |-> IF x = k THEN v ELSE c[x]]
EmptyCache == [x \in {} |-> None]

NoFile == [exists |-> FALSE, data |-> <<>>]
File(d) == [exists |-> TRUE, data |-> d]

(***************************************************************************)
(* The nearest-resort scan.                                                *)
(***************************************************************************)
\* the loop "for resort in resorts: dist = haversine(...); if dist <
\* min_dist: min_dist = dist; nearest = resort['name']", from position i with
\* the running minimum m = [min_dist, nearest]
\* faulty variant of the scan: the loop stops one resort short
RECURSIVE ScanFromSkipsLast(_, _, _, _, _)
ScanFromSkipsLast(lat, lon, rs, i, m) ==
    IF i >= Len(rs) THEN m
    ELSE LET dist == haversine_miles(lat, lon, rs[i].lat, rs[i].lon)
         IN  ScanFromSkipsLast(lat, lon, rs, i + 1,
                               IF dist < m.min_dist
                               THEN [min_dist |-> dist, nearest |-> rs[i].name]
                               ELSE m)

\* faulty variant of the scan: "<=" instead of "<", the last of several
\* equally near resorts wins
RECURSIVE ScanFromLastWins(_, _, _, _, _)
ScanFromLastWins(lat, lon, rs, i, m) ==
    IF i > Len(rs) THEN m
    ELSE LET dist == haversine_miles(lat, lon, rs[i].lat, rs[i].lon)
         IN  ScanFromLastWins(lat, lon, rs, i + 1,
                              IF dist <= m.min_dist
                              THEN [min_dist |-> dist, nearest |-> rs[i].name]
                              ELSE m)

\* faulty variant of the scan: the running minimum starts at 0, not infinity
RECURSIVE ScanFromZero(_, _, _, _, _)
ScanFromZero(lat, lon, rs, i, m) ==
    IF i > Len(rs) THEN m
    ELSE LET dist == haversine_miles(lat, lon, rs[i].lat, rs[i].lon)
         IN  ScanFromZero(lat, lon, rs, i + 1,
                          IF dist < m.min_dist
                          THEN [min_dist |-> dist, nearest |-> rs[i].name]
                          ELSE m)

NearestScanFromZero(lat, lon, rs) ==
    ScanFromZero(lat, lon, rs, 1, [min_dist |-> 0, nearest |-> NoName])

RECURSIVE ScanFrom(_, _, _, _, _)
ScanFrom(lat, lon, rs, i, m) ==
    IF i > Len(rs) THEN m
    ELSE LET dist == haversine_miles(lat, lon, rs[i].lat, rs[i].lon)
         IN  ScanFrom(lat, lon, rs, i + 1,
                      IF dist < m.min_dist
                      THEN [min_dist |-> dist, nearest |-> rs[i].name]
                      ELSE m)

NearestScan(lat, lon, rs) ==
    ScanFrom(lat, lon, rs, 1, [min_dist |-> Inf, nearest |-> NoName])

(***************************************************************************)
(* Program data, scaled down: the resort lists of config.py, the rows of   *)
(* the two CMS tables, the hardcoded HOSPITALS of build_hospitals and the   *)
(* state lists.                                                             *)
(***************************************************************************)
EPIC_RESORTS == <<[name |-> "Vail", state |-> "CO", region |-> "rockies"]>>
IKON_RESORTS == <<[name |-> "Aspen Snowmass", state |-> "CO", region |-> "rockies"],
                  [name |-> "Tremblant", state |-> "QC", region |-> "northeast"]>>
BOTH_PASS_RESORTS == <<>>
US_STATES == {"CO", "UT", "TX"}

WithNetwork(rs, network) ==
    [i \in 1..Len(rs) |-> [name |-> rs[i].name, state |-> rs[i].state,
                           region |-> rs[i].region, passNetwork |-> network]]

\* get_all_resorts, on the lists the behaviour was given for config.py
get_all_resorts ==
    WithNetwork(epic_list, "epic") \o WithNetwork(ikon_list, "ikon")
        \o WithNetwork(BOTH_PASS_RESORTS, "both")

\* f"{name}|{state}"
CacheKey(name, state) ==
    CASE name = "Vail" /\ state = "CO" -> "Vail|CO"
      [] name = "Aspen Snowmass" /\ state = "CO" -> "Aspen Snowmass|CO"
      [] name = "Tremblant" /\ state = "QC" -> "Tremblant|QC"
      [] name = "vail " /\ state = "CO" -> "vail |CO"
      [] name = "Mt Brighton" /\ state = "MI" -> "Mt Brighton|MI"
      [] name = "Snow King" /\ state = "WY" -> "Snow King|WY"
      [] OTHER -> "?|?"

\* rows of the CMS dialysis-facility table (DFC_FACILITY.csv)
DialysisRows ==
    <<[ccn |-> "062501", facility |-> "Clinic B", city |-> "Vail", state |-> "CO"],
      [ccn |-> "062500", facility |-> "Clinic A", city |-> "Avon", state |-> "CO"]>>

\* rows of the CMS hospital table
HospitalRows ==
    <<[id |-> "060096", name |-> "Hospital B", city |-> "Vail", state |-> "CO"],
      [id |-> "450001", name |-> "Hospital A", city |-> "Avon", state |-> "TX"],
      [id |-> "460001", name |-> "Hospital A", city |-> "Park City", state |-> "UT"],
      [id |-> "060010", name |-> "Hospital B", city |-> "Avon", state |-> "CO"]>>
CMS_SKI_STATES == {"CO", "UT"}
OSM_SKI_STATES == <<"CO", "UT">>

\* build_hospitals.HOSPITALS: (name, city, state, lat, lon, hasEmergency)
HOSPITALS ==
    <<[name |-> "Vail Health Hospital", city |-> "Vail", state |-> "CO",
       lat |-> 149, lon |-> TheLon, has_er |-> TRUE],
      [name |-> "Park City Hospital", city |-> "Park City", state |-> "UT",
       lat |-> 400150, lon |-> TheLon, has_er |-> TRUE],
      [name |-> "Aspen Valley Hospital", city |-> "Aspen", state |-> "CO",
       lat |-> 100149, lon |-> TheLon, has_er |-> TRUE]>>

\* f"{name}|{state}".replace(" ", "-").lower()
HospitalId(name, state) ==
    CASE name = "Vail Health Hospital" /\ state = "CO" -> "vail-health-hospital|co"
      [] name = "Park City Hospital" /\ state = "UT" -> "park-city-hospital|ut"
      [] name = "Aspen Valley Hospital" /\ state = "CO" -> "aspen-valley-hospital|co"
      [] OTHER -> "?|?"

(***************************************************************************)
(* External services: what one request may answer.                         *)
(***************************************************************************)
\* Nominatim search: a first result, an empty result list, or a request error
NominatimResponses ==
    [kind : {"ok"}, lat : ResortLats, lon : Lons]
        \cup {[kind |-> k, lat |-> None, lon |-> None] : k \in {"empty", "error"}}

\* Census onelineaddress: a first address match, no match, or a request error
CensusResponses ==
    [kind : {"ok"}, lat : FacilityLats, lon : Lons]
        \cup {[kind |-> k, lat |-> None, lon |-> None] : k \in {"empty", "error"}}

\* faulty variant of geocode_resort_nominatim: the request error is not caught
geocode_resort_nominatim_uncaught(resp) ==
    IF resp.kind = "ok"
    THEN [lat |-> resp.lat, lon |-> resp.lon, raised |-> FALSE, slept |-> TRUE]
    ELSE [lat |-> None, lon |-> None, raised |-> resp.kind = "error",
          slept |-> resp.kind # "error"]

\* geocoder.geocode_resort_nominatim: (lat, lon) of the first result, or
\* (None, None) on an empty result and on requests.RequestException, which
\* it catches; raised tells whether an exception leaves the function, slept
\* whether time.sleep(delay) ran: it follows resp.json() inside the try, so
\* the handler of the exception is reached without it
geocode_resort_nominatim(resp) ==
    IF resp.kind = "ok"
    THEN [lat |-> resp.lat, lon |-> resp.lon, raised |-> FALSE, slept |-> TRUE]
    ELSE [lat |-> None, lon |-> None, raised |-> FALSE,
          slept |-> resp.kind # "error"]

\* geocoder.geocode_facility_census: coordinates of the first match when both
\* are truthy ("if lat and lon"), else (None, None); RequestException caught;
\* time.sleep(delay) follows resp.json() inside the try
geocode_facility_census(resp) ==
    IF resp.kind = "ok" /\ Truthy(resp.lat) /\ Truthy(resp.lon)
    THEN [lat |-> resp.lat, lon |-> resp.lon, raised |-> FALSE, slept |-> TRUE]
    ELSE [lat |-> None, lon |-> None, raised |-> FALSE,
          slept |-> resp.kind # "error"]

\* faulty variant of ResortGeocoder.geocode: a failed lookup is not cached
ResortGeocoder_geocode_drops_failure(c, cache_key, resp) ==
    IF cache_key \in DOMAIN c
    THEN [lat |-> c[cache_key].lat, lon |-> c[cache_key].lon, cache |-> c,
          calls |-> 0, raised |-> FALSE]
    ELSE LET r == IF resp.kind = "ok"
                  THEN [lat |-> resp.lat, lon |-> resp.lon]
                  ELSE [lat |-> None, lon |-> None]
         IN  [lat |-> r.lat, lon |-> r.lon,
              cache |-> IF r.lat = None THEN c
                        ELSE Put(c, cache_key, [lat |-> r.lat, lon |-> r.lon]),
              calls |-> 1, raised |-> FALSE]

\* ResortGeocoder.geocode on the in-memory cache c: the value returned, the
\* cache afterwards and the number of external requests made (the "query"
\* field of a resort cache entry is never read and is left out)
ResortGeocoder_geocode(c, cache_key, resp) ==
    IF cache_key \in DOMAIN c
    THEN [lat |-> c[cache_key].lat, lon |-> c[cache_key].lon, cache |-> c,
          calls |-> 0, raised |-> FALSE]
    ELSE LET r == geocode_resort_nominatim(resp)
         IN  IF r.raised
             THEN [lat |-> None, lon |-> None, cache |-> c, calls |-> 1,
                   raised |-> TRUE]
             ELSE [lat |-> r.lat, lon |-> r.lon,
                   cache |-> Put(c, cache_key, [lat |-> r.lat, lon |-> r.lon]),
                   calls |-> 1, raised |-> FALSE]

\* FacilityGeocoder.geocode
FacilityGeocoder_geocode(c, ccn, resp) ==
    IF ccn \in DOMAIN c
    THEN [lat |-> c[ccn].lat, lon |-> c[ccn].lon, cache |-> c,
          calls |-> 0, raised |-> FALSE]
    ELSE LET r == geocode_facility_census(resp)
         IN  IF r.raised
             THEN [lat |-> None, lon |-> None, cache |-> c, calls |-> 1,
                   raised |-> TRUE]
             ELSE [lat |-> r.lat, lon |-> r.lon,
                   cache |-> Put(c, ccn, [lat |-> r.lat, lon |-> r.lon]),
                   calls |-> 1, raised |-> FALSE]

(***************************************************************************)
(* The external services of a behaviour.  They answer freely, or, when the *)
(* world is fixed, every request gets the same answer each time it is made.*)
(***************************************************************************)
FreeWorld == [free |-> TRUE]

NominatimAnswers(cache_key) ==
    IF world.free THEN NominatimResponses ELSE {world.nominatim[cache_key]}

CensusAnswers(ccn) ==
    IF world.free THEN CensusResponses ELSE {world.census[ccn]}

MetadataAnswers == IF world.free THEN {"ok", "fail"} ELSE {world.meta}

CsvAnswers == IF world.free THEN {"ok", "fail"} ELSE {world.csv}

(***************************************************************************)
(* Runs.  A behaviour runs one script (session), possibly several times; a *)
(* run can be killed between any two steps.                                *)
(***************************************************************************)
Scripts == {"generate_data", "fetch_cms_hospitals", "fetch_osm_hospitals",
            "build_hospitals", "build_resorts", "enrich_resorts",
            "fetch_osm_resorts"}
Stopped == pc \in {"idle", "done", "aborted", "killed"}
NoGeo == [key |-> "", hit |-> TRUE, lat |-> None, lon |-> None]
NoMatchIn == [written |-> FALSE, by |-> "none", resorts |-> <<>>, facs |-> {}]

\* the files a script reads as its input
InputsOf(s) ==
    CASE s = "generate_data" -> <<resortCacheFile, facilityCacheFile>>
      [] s = "fetch_cms_hospitals" -> <<resortsJson, hospitalCacheFile>>
      [] s = "build_resorts" -> <<resortCacheFile>>
      [] s = "fetch_osm_resorts" -> <<>>
      [] OTHER -> <<resortsJson>>

NoRun == [n |-> 0, in |-> <<>>, out |-> <<>>]

\* no request to a geocoding host yet
NoReq == [host |-> "none", outcome |-> "none", slept |-> TRUE]

\* a run finishes: what it read and what it wrote
RunCompletes ==
    /\ lastRun' = [n |-> runs', in |-> inAtStart',
                   out |-> <<resortsJson', clinicsJson', hospitalsJson'>>]
    /\ prevRun' = lastRun

\* the fresh memory of a script that has just been started
BeginRun(s) ==
    /\ Stopped
    /\ runs < MaxRuns
    /\ session = s
    /\ script' = s
    /\ runs' = runs + 1
    /\ nCalls' = 0
    /\ calledKeys' = {}
    /\ failedKeys' = {}
    /\ dlFailed' = FALSE
    /\ scanned' = {}
    /\ lastGeo' = NoGeo
    /\ outAtStart' = <<resortsJson, clinicsJson, hospitalsJson>>
    /\ srcFailed' = "none"
    /\ inAtStart' = InputsOf(s)
    /\ lastReq' = NoReq
    /\ submitted' = <<>>
    /\ UNCHANGED <<session, resolvedPrior, erroredIds, inputs, pure>>

NotNa(r) == r.lat # None /\ r.lon # None

\* faulty variant of load_json_cache: the JSONDecodeError is not caught
load_json_cache_uncaught(file, bad) ==
    IF bad THEN [cache |-> EmptyCache, raised |-> TRUE]
    ELSE [cache |-> file, raised |-> FALSE]

\* geocoder.load_json_cache: the dict the file holds; {} when there is no
\* file and when json.load raises JSONDecodeError or IOError (bad: the file
\* does not hold valid JSON, whatever text is left in it).  A file that is
\* not there reads as the empty cache.
load_json_cache(file, bad) ==
    IF bad THEN [cache |-> EmptyCache, raised |-> FALSE]
    ELSE [cache |-> file, raised |-> FALSE]

\* fetch_cms_hospitals.load_json(path, {}): a bare except returns the default
load_json(file, bad) ==
    IF bad THEN [cache |-> EmptyCache, raised |-> FALSE]
    ELSE [cache |-> file, raised |-> FALSE]

(***************************************************************************)
(* generate_data.py                                                        *)
(***************************************************************************)
\* geocode_resorts: us_resorts = [r for r in resorts if r["state"] in US_STATES]
us_resorts == SelectSeq(get_all_resorts, LAMBDA r : r.state \in US_STATES)

\* main up to the first iteration of geocode_resorts: ResortGeocoder()
\* loads resort_geocoded_cache.json
GenerateDataStart ==
    /\ BeginRun("generate_data")
    /\ LET loaded == load_json_cache(resortCacheFile, "resort" \in corrupt)
       IN  /\ cache' = loaded.cache
           /\ pc' = IF loaded.raised THEN "aborted" ELSE "geocode_resorts"
    /\ data' = <<>>
    /\ idx' = 1
    /\ df_facilities' = <<>> /\ lats' = <<>> /\ lons' = <<>>
    /\ resorts' = <<>> /\ need_geocode' = <<>> /\ hospitals' = <<>> /\ seen_ids' = {}
    /\ UNCHANGED <<disk, completed, clinicsIn, hospitalsIn>>
    /\ UNCHANGED hist

\* one iteration of the loop of geocode_resorts
GeocodeResort ==
    /\ pc = "geocode_resorts"
    /\ idx <= Len(us_resorts)
    /\ LET resort == us_resorts[idx]
           cache_key == CacheKey(resort.name, resort.state)
           was_cached == cache_key \in DOMAIN cache
       IN  \E resp \in NominatimAnswers(cache_key) :
             LET g == ResortGeocoder_geocode(cache, cache_key, resp)
                 answer == geocode_resort_nominatim(resp)
             IN  /\ nCalls' = nCalls + g.calls
                 /\ calledKeys' = IF g.calls > 0 THEN calledKeys \cup {cache_key}
                                  ELSE calledKeys
                 /\ lastGeo' = IF was_cached
                               THEN [key |-> cache_key, hit |-> TRUE,
                                     lat |-> None, lon |-> None]
                               ELSE [key |-> cache_key, hit |-> FALSE,
                                     lat |-> answer.lat, lon |-> answer.lon]
                 /\ failedKeys' = IF ~was_cached /\ answer.lat = None
                                  THEN failedKeys \cup {cache_key} ELSE failedKeys
                 /\ lastReq' = IF g.calls > 0
                               THEN [host |-> "nominatim", outcome |-> resp.kind,
                                     slept |-> answer.slept]
                               ELSE lastReq
                 /\ IF g.raised
                    THEN /\ pc' = "aborted"
                         /\ UNCHANGED <<cache, data, idx>>
                    ELSE /\ cache' = g.cache
                         /\ data' = Append(data,
                               [id |-> cache_key, name |-> resort.name,
                                state |-> resort.state, lat |-> g.lat,
                                lon |-> g.lon,
                                passNetwork |-> resort.passNetwork,
                                region |-> resort.region])
                         /\ idx' = idx + 1
                         /\ pc' = "geocode_resorts"
    /\ UNCHANGED <<disk, script, resorts, df_facilities, lats, lons,
                   need_geocode, hospitals, seen_ids, session, runs,
                   resolvedPrior, scanned, dlFailed, outAtStart, completed,
                   clinicsIn, hospitalsIn>>
    /\ UNCHANGED <<srcFailed, inputs, pure>>
    /\ UNCHANGED <<inAtStart, hist>>
    /\ UNCHANGED <<submitted, erroredIds>>

\* the end of geocode_resorts: geocoder.save()
SaveResortCache ==
    /\ pc = "geocode_resorts"
    /\ idx > Len(us_resorts)
    /\ resortCacheFile' = cache
    /\ pc' = "download"
    /\ UNCHANGED <<resortsJson, clinicsJson, hospitalsJson, facilityCacheFile,
                   hospitalCacheFile, script, idx, cache, resorts, data, df_facilities, lats, lons,
                   need_geocode, hospitals, seen_ids, obs>>
    /\ UNCHANGED <<inputs, pure>>
    /\ UNCHANGED <<inAtStart, hist>>
    /\ corrupt' = corrupt \ {"resort"}

\* get_cms_csv_url: the metadata request, with CMS_CSV_FALLBACK on failure
get_cms_csv_url(meta) == IF meta = "ok" THEN "downloadURL" ELSE "CMS_CSV_FALLBACK"

\* download_dialysis_data: the table, or an empty table when the CSV request
\* fails
download_dialysis_data(meta, csv) ==
    LET csv_url == get_cms_csv_url(meta)
    IN  IF csv = "ok" THEN DialysisRows ELSE <<>>

\* faulty variant of main: the empty facility table does not stop the run
TableIsNeverEmpty(df) == FALSE

\* main: "if df_facilities.empty"
TableIsEmpty(df) == df = <<>>

\* main, step 2: download_dialysis_data, "if df_facilities.empty: return";
\* else geocode_clinics starts and FacilityGeocoder() loads
\* facility_geocoded_cache.json
DownloadDialysisData ==
    /\ pc = "download"
    /\ \E meta \in MetadataAnswers, csv \in CsvAnswers :
         LET df == download_dialysis_data(meta, csv)
         IN  /\ dlFailed' = (csv = "fail")
             /\ srcFailed' = IF meta = "fail" THEN "metadata" ELSE srcFailed
             /\ df_facilities' = df
             /\ IF TableIsEmpty(df)
                THEN /\ pc' = "aborted"
                     /\ UNCHANGED <<cache, idx>>
                ELSE LET loaded == load_json_cache(facilityCacheFile,
                                                   "facility" \in corrupt)
                     IN  /\ pc' = IF loaded.raised THEN "aborted"
                                  ELSE "geocode_clinics"
                         /\ cache' = loaded.cache
                         /\ idx' = 1
    /\ UNCHANGED <<disk, script, resorts, data, lats, lons, need_geocode,
                   hospitals, seen_ids, session, runs, nCalls, calledKeys,
                   lastGeo, resolvedPrior, scanned, failedKeys, outAtStart,
                   completed, clinicsIn, hospitalsIn>>
    /\ UNCHANGED <<inputs, pure>>
    /\ UNCHANGED <<inAtStart, hist>>
    /\ UNCHANGED <<lastReq, submitted, erroredIds>>

\* geocode_clinics: "if idx % 100 == 0 or idx == total: ... geocoder.save()"
SaveDue(i, total) == i % ProgressEvery = 0 \/ i = total

\* one iteration of the loop of geocode_clinics, with its periodic save
GeocodeClinic ==
    /\ pc = "geocode_clinics"
    /\ idx <= Len(df_facilities)
    /\ LET row == df_facilities[idx]
           ccn == row.ccn
           total == Len(df_facilities)
           was_cached == ccn \in DOMAIN cache
       IN  \E resp \in CensusAnswers(ccn) :
             LET g == FacilityGeocoder_geocode(cache, ccn, resp)
                 answer == geocode_facility_census(resp)
             IN  /\ nCalls' = nCalls + g.calls
                 /\ calledKeys' = IF g.calls > 0 THEN calledKeys \cup {ccn}
                                  ELSE calledKeys
                 /\ lastGeo' = IF was_cached
                               THEN [key |-> ccn, hit |-> TRUE,
                                     lat |-> None, lon |-> None]
                               ELSE [key |-> ccn, hit |-> FALSE,
                                     lat |-> answer.lat, lon |-> answer.lon]
                 /\ failedKeys' = IF ~was_cached /\ answer.lat = None
                                  THEN failedKeys \cup {ccn} ELSE failedKeys
                 /\ lastReq' = IF g.calls > 0
                               THEN [host |-> "census", outcome |-> resp.kind,
                                     slept |-> answer.slept]
                               ELSE lastReq
                 /\ IF g.raised
                    THEN /\ pc' = "aborted"
                         /\ UNCHANGED <<cache, lats, lons, idx, facilityCacheFile,
                                        corrupt>>
                    ELSE /\ cache' = g.cache
                         /\ lats' = Append(lats, g.lat)
                         /\ lons' = Append(lons, g.lon)
                         /\ idx' = idx + 1
                         /\ pc' = "geocode_clinics"
                         /\ facilityCacheFile' =
                              IF SaveDue(idx, total)
                              THEN g.cache ELSE facilityCacheFile
                         /\ corrupt' = IF SaveDue(idx, total)
                                       THEN corrupt \ {"facility"} ELSE corrupt
    /\ UNCHANGED <<resortsJson, clinicsJson, hospitalsJson, resortCacheFile,
                   hospitalCacheFile, script, resorts, data, df_facilities, need_geocode, hospitals,
                   seen_ids, session, runs, resolvedPrior, scanned, dlFailed,
                   outAtStart, completed, clinicsIn, hospitalsIn>>
    /\ UNCHANGED <<srcFailed, inputs, pure>>
    /\ UNCHANGED <<inAtStart, hist>>
    /\ UNCHANGED <<submitted, erroredIds>>

\* the end of geocode_clinics: geocoder.save()
SaveFacilityCache ==
    /\ pc = "geocode_clinics"
    /\ idx > Len(df_facilities)
    /\ facilityCacheFile' = cache
    /\ pc' = "output"
    /\ UNCHANGED <<resortsJson, clinicsJson, hospitalsJson, resortCacheFile,
                   hospitalCacheFile, script, idx, cache, resorts, data, df_facilities, lats, lons,
                   need_geocode, hospitals, seen_ids, obs>>
    /\ UNCHANGED <<inputs, pure>>
    /\ UNCHANGED <<inAtStart, hist>>
    /\ corrupt' = corrupt \ {"facility"}

RECURSIVE Concat(_)
Concat(ss) == IF ss = <<>> THEN <<>> ELSE Head(ss) \o Concat(Tail(ss))

\* generate_resorts_json: dropna, sort_values("name"), one record per row
\* (6-decimal rounding of a coordinate keeps every point of the model's grid)
generate_resorts_json(df_resorts) ==
    LET valid == SelectSeq(df_resorts, NotNa)
    IN  Vals(SortPairs([i \in 1..Len(valid) |->
                          [key |-> <<StrRank(valid[i].name)>>, val |-> valid[i]]]))

\* faulty variant of the clinic filter: "<" instead of "<="
ClinicStrictlyWithinThreshold(min_dist) == min_dist < MAX_CLINIC_DISTANCE

\* "if min_dist <= MAX_CLINIC_DISTANCE"
ClinicWithinThreshold(min_dist) == min_dist <= MAX_CLINIC_DISTANCE

\* the body of the clinic loop of generate_clinics_json: the record appended
\* to clinics for one clinic, if any
ClinicRecord(clinic, valid_resorts) ==
    LET m == NearestScan(clinic.lat, clinic.lon, valid_resorts)
    IN  IF ClinicWithinThreshold(m.min_dist)
        THEN <<[ccn |-> clinic.ccn, facility |-> clinic.facility,
                city |-> clinic.city, state |-> clinic.state,
                lat |-> clinic.lat, lon |-> clinic.lon,
                nearestResort |-> m.nearest,
                nearestResortDist |-> round(m.min_dist, 2)]>>
        ELSE <<>>

\* df_clinics: the facility table with the lat and lon columns added
ClinicsFrame(df, ls, lo) ==
    [i \in 1..Len(df) |->
        [ccn |-> df[i].ccn, facility |-> df[i].facility,
         city |-> df[i].city, state |-> df[i].state,
         lat |-> ls[i], lon |-> lo[i]]]

\* generate_clinics_json: dropna on both frames, scan, filter, sort by
\* (state, city, facility)
generate_clinics_json(df_resorts, df_clinics) ==
    LET valid_resorts == SelectSeq(df_resorts, NotNa)
        valid_clinics == SelectSeq(df_clinics, NotNa)
        clinics == Concat([i \in 1..Len(valid_clinics) |->
                             ClinicRecord(valid_clinics[i], valid_resorts)])
    IN  Vals(SortPairs([i \in 1..Len(clinics) |->
                          [key |-> <<StrRank(clinics[i].state),
                                     StrRank(clinics[i].city),
                                     StrRank(clinics[i].facility)>>,
                           val |-> clinics[i]]]))

\* main, step 4: generate_resorts_json and generate_clinics_json
GenerateOutputs ==
    /\ pc = "output"
    /\ LET df_clinics == ClinicsFrame(df_facilities, lats, lons)
           valid_clinics == SelectSeq(df_clinics, NotNa)
       IN  /\ resortsJson' = File(generate_resorts_json(data))
           /\ clinicsJson' = File(generate_clinics_json(data, df_clinics))
           /\ clinicsIn' = [written |-> TRUE, by |-> script,
                            resorts |-> SelectSeq(data, NotNa),
                            facs |-> {[id |-> valid_clinics[i].ccn,
                                       lat |-> valid_clinics[i].lat,
                                       lon |-> valid_clinics[i].lon] :
                                      i \in 1..Len(valid_clinics)}]
    /\ pc' = "done"
    /\ completed' = completed \cup {script}
    /\ UNCHANGED <<hospitalsJson, resortCacheFile, facilityCacheFile,
                   hospitalCacheFile, script, idx, cache, resorts, data, df_facilities, lats,
                   lons, need_geocode, hospitals, seen_ids, session, runs,
                   nCalls, calledKeys, lastGeo, resolvedPrior, scanned,
                   failedKeys, dlFailed, outAtStart, hospitalsIn>>
    /\ UNCHANGED <<srcFailed, inputs, pure>>
    /\ UNCHANGED inAtStart
    /\ UNCHANGED <<lastReq, submitted, erroredIds, corrupt>>
    /\ RunCompletes

(***************************************************************************)
(* fetch_cms_hospitals.py                                                  *)
(***************************************************************************)
\* load_json(RESORTS_FILE, []) and load_resorts(): the list, or [] when the
\* file cannot be read
load_resorts(file) == IF file.exists THEN file.data ELSE <<>>

\* main: rows = [r for r in reader if r.get("State") in SKI_STATES]
rows == SelectSeq(HospitalRows, LAMBDA r : r.state \in CMS_SKI_STATES)

\* main up to step 1: "if not resorts: return", then the cache is loaded
CmsStart ==
    /\ BeginRun("fetch_cms_hospitals")
    /\ LET rs == load_resorts(resortsJson)
       IN  /\ resorts' = rs
           /\ IF rs = <<>>
              THEN pc' = "aborted" /\ cache' = EmptyCache
              ELSE LET loaded == load_json(hospitalCacheFile,
                                           "hospital" \in corrupt)
                   IN  /\ pc' = IF loaded.raised THEN "aborted"
                                ELSE "cms_download"
                       /\ cache' = loaded.cache
    /\ idx' = 0
    /\ data' = <<>> /\ df_facilities' = <<>> /\ lats' = <<>> /\ lons' = <<>>
    /\ need_geocode' = <<>> /\ hospitals' = <<>> /\ seen_ids' = {}
    /\ UNCHANGED <<disk, completed, clinicsIn, hospitalsIn>>
    /\ UNCHANGED hist

\* main, step 1: the metadata request and the CSV request inside one try;
\* any exception returns.  Then need_geocode is collected
CmsDownload ==
    /\ pc = "cms_download"
    /\ \E meta \in MetadataAnswers, csv \in CsvAnswers :
       /\ srcFailed' = IF meta = "fail" THEN "metadata" ELSE srcFailed
       /\ IF meta = "fail" \/ csv = "fail"
         THEN /\ pc' = "aborted"
              /\ dlFailed' = TRUE
              /\ UNCHANGED need_geocode
         ELSE /\ need_geocode' =
                   LET missing == SelectSeq(rows, LAMBDA r : r.id \notin DOMAIN cache)
                   IN  [i \in 1..Len(missing) |-> missing[i].id]
              /\ pc' = IF need_geocode' # <<>> THEN "cms_batch" ELSE "cms_output"
              /\ dlFailed' = FALSE
    /\ UNCHANGED <<disk, script, idx, cache, resorts, data, df_facilities, lats, lons, hospitals,
                   seen_ids, session, runs, nCalls, calledKeys, lastGeo,
                   resolvedPrior, scanned, failedKeys, outAtStart, completed,
                   clinicsIn, hospitalsIn>>
    /\ UNCHANGED <<inputs, pure>>
    /\ UNCHANGED <<inAtStart, hist>>
    /\ UNCHANGED <<lastReq, submitted, erroredIds>>

\* a row of the Census batch response for one address id
BatchRows ==
    [match_status : {"Match"}, lat : FacilityLats, lon : Lons]
        \cup {[match_status |-> "No_Match", lat |-> None, lon |-> None]}

\* what the Census batch endpoint may answer to a batch: a CSV with a row
\* for some of the ids, or an error: the POST or raise_for_status raises (no
\* row is parsed), or an exception ends the parsing after some rows
BatchResponses(batch) ==
    {[kind |-> k, rows |-> f] :
        k \in {"ok", "error"},
        f \in UNION {[S -> BatchRows] : S \in SUBSET SeqToSet(batch)}}

\* the answer to a batch in a fixed world: the request fails, or the CSV has
\* the rows the world holds for the ids of the batch
Absent == [match_status |-> "absent", lat |-> None, lon |-> None]
BatchAnswers(batch) ==
    IF world.free THEN BatchResponses(batch)
    ELSE IF world.batch_error THEN {[kind |-> "error", rows |-> EmptyCache]}
    ELSE {[kind |-> "ok",
           rows |-> [fid \in {f \in SeqToSet(batch) : world.batch[f] # Absent} |->
                        world.batch[fid]]]}

Failed == [lat |-> None, lon |-> None, failed |-> TRUE]

\* the loop over the rows of the response: results[fid] for every row read
ParsedRows(response) ==
    [fid \in DOMAIN response.rows |->
        IF response.rows[fid].match_status \in {"Match", "Exact"}
        THEN [lat |-> response.rows[fid].lat, lon |-> response.rows[fid].lon,
              failed |-> FALSE]
        ELSE Failed]

\* faulty variant of batch_geocode: the handler of the exception marks only
\* the addresses that have no result yet
batch_geocode_keeps_parsed(addresses, response) ==
    LET parsed == ParsedRows(response)
    IN  IF response.kind = "error"
        THEN [fid \in (DOMAIN parsed) \cup SeqToSet(addresses) |->
                IF fid \in DOMAIN parsed THEN parsed[fid] ELSE Failed]
        ELSE parsed

\* batch_geocode: id -> {"lat", "lon"} or {"failed": True}; on any exception
\* "for addr in addresses: results[addr[0]] = {'failed': True}" goes over
\* the results parsed so far
batch_geocode(addresses, response) ==
    LET parsed == ParsedRows(response)
    IN  IF response.kind = "error"
        THEN [fid \in (DOMAIN parsed) \cup SeqToSet(addresses) |->
                IF fid \in SeqToSet(addresses) THEN Failed ELSE parsed[fid]]
        ELSE parsed

total_batches == (Len(need_geocode) + BATCH_SIZE - 1) \div BATCH_SIZE

Min(a, b) == IF a < b THEN a ELSE b

\* faulty variant of the cache update: the results take the place of the cache
UpdateCacheReplaces(c, results) == results

\* "for fid, coords in results.items(): cache[fid] = coords"
UpdateCache(c, results) ==
    [fid \in (DOMAIN c) \cup (DOMAIN results) |->
        IF fid \in DOMAIN results THEN results[fid] ELSE c[fid]]

\* faulty variant of the slice: the end index is taken inclusive
BatchOfInclusive(need, batch_num) ==
    LET start_idx == batch_num * BATCH_SIZE
        end_idx == Min(start_idx + BATCH_SIZE + 1, Len(need))
    IN  SubSeq(need, start_idx + 1, end_idx)

\* "start_idx = batch_num * BATCH_SIZE; end_idx = min(start_idx + BATCH_SIZE,
\* len(need_geocode)); batch = need_geocode[start_idx:end_idx]"
BatchOf(need, batch_num) ==
    LET start_idx == batch_num * BATCH_SIZE
        end_idx == Min(start_idx + BATCH_SIZE, Len(need))
    IN  SubSeq(need, start_idx + 1, end_idx)

\* main, step 2: one iteration of the batch loop, with its save_json
CmsBatch ==
    /\ pc = "cms_batch"
    /\ idx < total_batches
    /\ LET batch == BatchOf(need_geocode, idx)
       IN  \E response \in BatchAnswers(batch) :
             LET results == batch_geocode(batch, response)
             IN  /\ cache' = UpdateCache(cache, results)
                 /\ hospitalCacheFile' = cache'
                 /\ nCalls' = nCalls + 1
                 /\ calledKeys' = calledKeys \cup SeqToSet(batch)
                 /\ submitted' = Append(submitted,
                                        [ids |-> batch, kind |-> response.kind])
                 /\ erroredIds' = IF response.kind = "error"
                                  THEN erroredIds \cup SeqToSet(batch)
                                  ELSE erroredIds
                 /\ failedKeys' = failedKeys \cup
                        {fid \in DOMAIN results : results[fid].failed}
    /\ idx' = idx + 1
    /\ pc' = IF idx + 1 < total_batches THEN "cms_batch" ELSE "cms_output"
    /\ UNCHANGED <<resortsJson, clinicsJson, hospitalsJson, resortCacheFile,
                   facilityCacheFile, script, resorts, data, df_facilities, lats, lons,
                   need_geocode, hospitals, seen_ids, session, runs, lastGeo,
                   resolvedPrior, scanned, dlFailed, outAtStart, completed,
                   clinicsIn, hospitalsIn>>
    /\ UNCHANGED <<srcFailed, inputs, pure>>
    /\ UNCHANGED <<inAtStart, hist>>
    /\ UNCHANGED lastReq
    /\ corrupt' = corrupt \ {"hospital"}

\* "if min_dist > MAX_DISTANCE_MILES: continue" of fetch_cms_hospitals
CmsBeyondThreshold(min_dist) == min_dist > CMS_MAX_DISTANCE_MILES

\* c = cache.get(fid, {}); lat, lon = c.get("lat"), c.get("lon")
CachedCoords(c, fid) ==
    IF fid \in DOMAIN c THEN [lat |-> c[fid].lat, lon |-> c[fid].lon]
    ELSE [lat |-> None, lon |-> None]

\* main, step 3: the body of the loop over rows: the record appended, if any
CmsHospitalRecord(row, c, rs) ==
    LET p == CachedCoords(c, row.id)
        m == NearestScan(p.lat, p.lon, rs)
    IN  IF ~Truthy(p.lat) \/ ~Truthy(p.lon) THEN <<>>
        ELSE IF CmsBeyondThreshold(m.min_dist) THEN <<>>
        ELSE <<[id |-> row.id, name |-> row.name, city |-> row.city,
                state |-> row.state, lat |-> p.lat, lon |-> p.lon,
                nearestResort |-> m.nearest,
                nearestResortDist |-> round(m.min_dist, 1)]>>

SortByStateName(hs) ==
    Vals(SortPairs([i \in 1..Len(hs) |->
                      [key |-> <<StrRank(hs[i].state), StrRank(hs[i].name)>>,
                       val |-> hs[i]]]))

\* main, step 3: build, sort by (state, name), save_json(OUTPUT_FILE)
CmsOutput ==
    /\ pc = "cms_output"
    /\ LET hs == Concat([i \in 1..Len(rows) |->
                           CmsHospitalRecord(rows[i], cache, resorts)])
           reached == {i \in 1..Len(rows) :
                         /\ Truthy(CachedCoords(cache, rows[i].id).lat)
                         /\ Truthy(CachedCoords(cache, rows[i].id).lon)}
       IN  /\ hospitalsJson' = File(SortByStateName(hs))
           /\ hospitalsIn' = [written |-> TRUE, by |-> script,
                              resorts |-> resorts,
                              facs |-> {[id |-> rows[i].id,
                                         lat |-> CachedCoords(cache, rows[i].id).lat,
                                         lon |-> CachedCoords(cache, rows[i].id).lon] :
                                        i \in reached}]
    /\ pc' = "done"
    /\ completed' = completed \cup {script}
    /\ UNCHANGED <<resortsJson, clinicsJson, resortCacheFile, facilityCacheFile,
                   hospitalCacheFile, script, idx, cache, resorts, data, df_facilities, lats,
                   lons, need_geocode, hospitals, seen_ids, session, runs,
                   nCalls, calledKeys, lastGeo, resolvedPrior, scanned,
                   failedKeys, dlFailed, outAtStart, clinicsIn>>
    /\ UNCHANGED <<srcFailed, inputs, pure>>
    /\ UNCHANGED inAtStart
    /\ UNCHANGED <<lastReq, submitted, erroredIds, corrupt>>
    /\ RunCompletes

(***************************************************************************)
(* fetch_osm_hospitals.py                                                  *)
(***************************************************************************)
\* elements an Overpass response may hold: nodes carry lat/lon, ways carry
\* them under "center"; an element may lack its name tag or its coordinates
Element(type, id, name, lat) ==
    [type |-> type, id |-> id, name |-> name,
     lat |-> IF type = "node" THEN lat ELSE None,
     lon |-> IF type = "node" /\ lat # None THEN TheLon ELSE None,
     center_lat |-> IF type = "node" THEN None ELSE lat,
     center_lon |-> IF type = "node" \/ lat = None THEN None ELSE TheLon]

OsmElements ==
    {Element("node", "101", "Hospital A", lat) : lat \in FacilityLats}
        \cup {Element("way", "102", "Hospital B", 149),
              Element("node", "103", NoName, 149),
              Element("way", "104", "Hospital A", None)}

RECURSIVE SeqsUpTo(_, _)
SeqsUpTo(S, n) ==
    IF n = 0 THEN {<<>>}
    ELSE LET shorter == SeqsUpTo(S, n - 1)
         IN  shorter \cup {Append(q, x) : q \in shorter, x \in S}

\* fetch_hospitals_for_state: the elements of the response, or [] on
\* requests.RequestException
OverpassResponses ==
    {[kind |-> "error", elements |-> <<>>]}
        \cup {[kind |-> "ok", elements |-> es] : es \in SeqsUpTo(OsmElements, MaxElements)}

OverpassAnswers(i) ==
    IF world.free THEN OverpassResponses ELSE {world.overpass[i]}

fetch_hospitals_for_state(resp) ==
    IF resp.kind = "ok" THEN resp.elements ELSE <<>>

\* f"osm-{el.get('id')}"
OsmId(id) ==
    CASE id = "101" -> "osm-101" [] id = "102" -> "osm-102"
      [] id = "103" -> "osm-103" [] id = "104" -> "osm-104" [] OTHER -> "osm-?"

\* the coordinates process_hospital reads from an element
ElementCoords(el) ==
    IF el.type = "node" THEN [lat |-> el.lat, lon |-> el.lon]
    ELSE [lat |-> el.center_lat, lon |-> el.center_lon]

\* "if min_dist > MAX_DISTANCE_MILES: return None" of fetch_osm_hospitals
OsmBeyondThreshold(min_dist) == min_dist > OSM_MAX_DISTANCE_MILES

\* process_hospital: the record, or None (the empty sequence)
process_hospital(el, state, rs) ==
    LET p == ElementCoords(el)
        m == NearestScan(p.lat, p.lon, rs)
    IN  IF el.name = NoName THEN <<>>
        ELSE IF ~Truthy(p.lat) \/ ~Truthy(p.lon) THEN <<>>
        ELSE IF OsmBeyondThreshold(m.min_dist) THEN <<>>
        ELSE <<[id |-> OsmId(el.id), name |-> el.name, city |-> "",
                state |-> state, lat |-> p.lat, lon |-> p.lon,
                nearestResort |-> m.nearest,
                nearestResortDist |-> round(m.min_dist, 1)]>>

\* the elements that get as far as the scan of process_hospital
ReachesScan(el) ==
    /\ el.name # NoName
    /\ Truthy(ElementCoords(el).lat)
    /\ Truthy(ElementCoords(el).lon)

\* main: "for el in elements: hospital = process_hospital(...); if hospital
\* and hospital['id'] not in seen_ids: append, add", from element i on
RECURSIVE ProcessElements(_, _, _, _, _)
ProcessElements(elements, i, state, rs, acc) ==
    IF i > Len(elements) THEN acc
    ELSE LET hospital == process_hospital(elements[i], state, rs)
         IN  ProcessElements(elements, i + 1, state, rs,
                IF hospital # <<>> /\ hospital[1].id \notin acc.seen_ids
                THEN [hospitals |-> acc.hospitals \o hospital,
                      seen_ids |-> acc.seen_ids \cup {hospital[1].id}]
                ELSE acc)

\* main up to the loop over the states: "if not resorts: return"
OsmStart ==
    /\ BeginRun("fetch_osm_hospitals")
    /\ LET rs == load_resorts(resortsJson)
       IN  /\ resorts' = rs
           /\ pc' = IF rs = <<>> THEN "aborted" ELSE "osm_fetch"
    /\ idx' = 1
    /\ cache' = EmptyCache
    /\ data' = <<>> /\ df_facilities' = <<>> /\ lats' = <<>> /\ lons' = <<>>
    /\ need_geocode' = <<>> /\ hospitals' = <<>> /\ seen_ids' = {}
    /\ UNCHANGED <<disk, completed, clinicsIn, hospitalsIn>>
    /\ UNCHANGED hist

\* one iteration of the loop over SKI_STATES
OsmFetchState ==
    /\ pc = "osm_fetch"
    /\ idx <= Len(OSM_SKI_STATES)
    /\ \E resp \in OverpassAnswers(idx) :
         LET elements == fetch_hospitals_for_state(resp)
             acc == ProcessElements(elements, 1, OSM_SKI_STATES[idx], resorts,
                        [hospitals |-> hospitals, seen_ids |-> seen_ids])
         IN  /\ hospitals' = acc.hospitals
             /\ seen_ids' = acc.seen_ids
             /\ srcFailed' = IF resp.kind = "error" THEN "overpass" ELSE srcFailed
             /\ scanned' = scanned \cup
                    {[id |-> OsmId(elements[i].id),
                      lat |-> ElementCoords(elements[i]).lat,
                      lon |-> ElementCoords(elements[i]).lon] :
                     i \in {j \in 1..Len(elements) : ReachesScan(elements[j])}}
    /\ idx' = idx + 1
    /\ UNCHANGED <<disk, script, pc, cache, resorts, data, df_facilities, lats, lons,
                   need_geocode, session, runs, nCalls, calledKeys, lastGeo,
                   resolvedPrior, failedKeys, dlFailed, outAtStart, completed,
                   clinicsIn, hospitalsIn>>
    /\ UNCHANGED <<inputs, pure>>
    /\ UNCHANGED <<inAtStart, hist>>
    /\ UNCHANGED <<lastReq, submitted, erroredIds>>

\* main after the loop: sort by (state, name) and write hospitals.json
OsmWrite ==
    /\ pc = "osm_fetch"
    /\ idx > Len(OSM_SKI_STATES)
    /\ hospitalsJson' = File(SortByStateName(hospitals))
    /\ hospitalsIn' = [written |-> TRUE, by |-> script, resorts |-> resorts,
                       facs |-> scanned]
    /\ pc' = "done"
    /\ completed' = completed \cup {script}
    /\ UNCHANGED <<resortsJson, clinicsJson, resortCacheFile, facilityCacheFile,
                   hospitalCacheFile, script, idx, cache, resorts, data, df_facilities, lats,
                   lons, need_geocode, hospitals, seen_ids, session, runs,
                   nCalls, calledKeys, lastGeo, resolvedPrior, scanned,
                   failedKeys, dlFailed, outAtStart, clinicsIn>>
    /\ UNCHANGED <<srcFailed, inputs, pure>>
    /\ UNCHANGED inAtStart
    /\ UNCHANGED <<lastReq, submitted, erroredIds, corrupt>>
    /\ RunCompletes

(***************************************************************************)
(* build_hospitals.py                                                      *)
(***************************************************************************)
\* faulty variant of the loop body: the distance is rounded whether or not
\* there are resorts
BuildHospitalRecordUnguarded(h, rs) ==
    LET m == NearestScan(h.lat, h.lon, rs)
    IN  [id |-> HospitalId(h.name, h.state), name |-> h.name, city |-> h.city,
         state |-> h.state, lat |-> h.lat, lon |-> h.lon,
         nearestResort |-> m.nearest,
         nearestResortDist |-> round(m.min_dist, 1)]

\* the body of the loop over HOSPITALS: the record appended
BuildHospitalRecord(h, rs) ==
    LET m == NearestScan(h.lat, h.lon, rs)
    IN  [id |-> HospitalId(h.name, h.state), name |-> h.name, city |-> h.city,
         state |-> h.state, lat |-> h.lat, lon |-> h.lon,
         nearestResort |-> m.nearest,
         nearestResortDist |-> IF rs # <<>> THEN round(m.min_dist, 1) ELSE None]

SortByStateCity(hs) ==
    Vals(SortPairs([i \in 1..Len(hs) |->
                      [key |-> <<StrRank(hs[i].state), StrRank(hs[i].city)>>,
                       val |-> hs[i]]]))

\* main: resorts.json is loaded (any failure gives []), every hospital gets
\* a record, the list is sorted by (state, city) and written
BuildHospitals ==
    /\ BeginRun("build_hospitals")
    /\ LET rs == load_resorts(resortsJson)
           hs == [i \in 1..Len(HOSPITALS) |-> BuildHospitalRecord(HOSPITALS[i], rs)]
       IN  /\ resorts' = rs
           /\ hospitals' = hs
           /\ hospitalsJson' = File(SortByStateCity(hs))
           /\ hospitalsIn' = [written |-> TRUE, by |-> "build_hospitals",
                              resorts |-> rs,
                              facs |-> {[id |-> hs[i].id, lat |-> hs[i].lat,
                                         lon |-> hs[i].lon] : i \in 1..Len(hs)}]
    /\ pc' = "done"
    /\ completed' = completed \cup {"build_hospitals"}
    /\ idx' = 0
    /\ cache' = EmptyCache
    /\ data' = <<>> /\ df_facilities' = <<>> /\ lats' = <<>> /\ lons' = <<>>
    /\ need_geocode' = <<>> /\ seen_ids' = {}
    /\ UNCHANGED <<resortsJson, clinicsJson, resortCacheFile, facilityCacheFile,
                   hospitalCacheFile, corrupt, clinicsIn>>
    /\ RunCompletes

(***************************************************************************)
(* Resort names as text: the characters of a name, str.lower, str.strip.   *)
(***************************************************************************)
Chars(name) ==
    CASE name = "Vail" -> <<"V", "a", "i", "l">>
      [] name = "vail " -> <<"v", "a", "i", "l", " ">>
      [] name = "Mt Brighton" ->
            <<"M", "t", " ", "B", "r", "i", "g", "h", "t", "o", "n">>
      [] name = "Snow King" -> <<"S", "n", "o", "w", " ", "K", "i", "n", "g">>
      [] name = "Aspen Snowmass" ->
            <<"A", "s", "p", "e", "n", " ", "S", "n", "o", "w", "m", "a", "s", "s">>
      [] name = "Tremblant" -> <<"T", "r", "e", "m", "b", "l", "a", "n", "t">>
      [] OTHER -> <<>>

LowerOf ==
    [A |-> "a", B |-> "b", K |-> "k", M |-> "m", S |-> "s", T |-> "t", V |-> "v"]

\* str.lower
lower(str) ==
    [i \in 1..Len(str) |->
        IF str[i] \in DOMAIN LowerOf THEN LowerOf[str[i]] ELSE str[i]]

\* str.strip
RECURSIVE lstrip(_)
lstrip(str) ==
    IF str # <<>> /\ Head(str) = " " THEN lstrip(Tail(str)) ELSE str

RECURSIVE rstrip(_)
rstrip(str) ==
    IF str # <<>> /\ str[Len(str)] = " "
    THEN rstrip(SubSeq(str, 1, Len(str) - 1)) ELSE str

strip(str) == rstrip(lstrip(str))

\* the name patterns of the two networks, scaled down; "mt brighton" of the
\* Epic set contains "brighton" of the Ikon set, as in the scripts
NAME_EPIC_RESORTS ==
    {<<"v", "a", "i", "l">>,
     <<"m", "t", " ", "b", "r", "i", "g", "h", "t", "o", "n">>}
NAME_IKON_RESORTS ==
    {<<"a", "s", "p", "e", "n">>,
     <<"s", "n", "o", "w", "m", "a", "s", "s">>,
     <<"b", "r", "i", "g", "h", "t", "o", "n">>}

\* faulty variant of get_pass_network: "or" instead of "and" in the first test
get_pass_network_or(name) ==
    LET name_lower == lower(Chars(name))
        is_epic == \E epic \in NAME_EPIC_RESORTS : Contains(epic, name_lower)
        is_ikon == \E ikon \in NAME_IKON_RESORTS : Contains(ikon, name_lower)
    IN  IF is_epic \/ is_ikon THEN "both"
        ELSE IF is_epic THEN "epic"
        ELSE IF is_ikon THEN "ikon"
        ELSE "independent"

\* get_pass_network of enrich_resorts.py and of fetch_osm_resorts.py
get_pass_network(name) ==
    LET name_lower == lower(Chars(name))
        is_epic == \E epic \in NAME_EPIC_RESORTS : Contains(epic, name_lower)
        is_ikon == \E ikon \in NAME_IKON_RESORTS : Contains(ikon, name_lower)
    IN  IF is_epic /\ is_ikon THEN "both"
        ELSE IF is_epic THEN "epic"
        ELSE IF is_ikon THEN "ikon"
        ELSE "independent"

\* what every resort build leaves behind in memory
ResortBuildDone(rs, outcome) ==
    /\ resorts' = rs
    /\ pc' = outcome
    /\ completed' = IF outcome = "done" THEN completed \cup {session} ELSE completed
    /\ idx' = 0
    /\ cache' = EmptyCache
    /\ data' = <<>> /\ df_facilities' = <<>> /\ lats' = <<>> /\ lons' = <<>>
    /\ need_geocode' = <<>> /\ hospitals' = <<>> /\ seen_ids' = {}
    /\ UNCHANGED <<clinicsJson, hospitalsJson, resortCacheFile, facilityCacheFile,
                   hospitalCacheFile, corrupt, clinicsIn, hospitalsIn>>
    /\ IF outcome = "done" THEN RunCompletes ELSE UNCHANGED hist

SortByName(rs) ==
    Vals(SortPairs([i \in 1..Len(rs) |->
                      [key |-> <<StrRank(rs[i].name)>>, val |-> rs[i]]]))

(***************************************************************************)
(* build_resorts.py                                                        *)
(***************************************************************************)
\* "if key in cache and cache[key].get('lat')"
HasCoords(c, key) == key \in DOMAIN c /\ Truthy(c[key].lat)

BuiltRecord(e, c, network) ==
    LET key == CacheKey(e.name, e.state)
    IN  [id |-> key, name |-> e.name, state |-> e.state, lat |-> c[key].lat,
         lon |-> c[key].lon, passNetwork |-> network, region |-> e.region]

\* the loop over EPIC_RESORTS, from entry i on
RECURSIVE EpicLoop(_, _, _, _)
EpicLoop(list, i, c, acc) ==
    IF i > Len(list) THEN acc
    ELSE EpicLoop(list, i + 1, c,
            IF HasCoords(c, CacheKey(list[i].name, list[i].state))
            THEN Append(acc, BuiltRecord(list[i], c, "epic"))
            ELSE acc)

\* the loop over IKON_RESORTS, from entry i on: the first record that has the
\* key already becomes "both"
RECURSIVE IkonLoop(_, _, _, _)
IkonLoop(list, i, c, acc) ==
    IF i > Len(list) THEN acc
    ELSE LET key == CacheKey(list[i].name, list[i].state)
             found == {j \in 1..Len(acc) : acc[j].id = key}
             existing == CHOOSE j \in found : \A k \in found : j <= k
         IN  IkonLoop(list, i + 1, c,
                IF found # {}
                THEN [acc EXCEPT ![existing].passNetwork = "both"]
                ELSE IF HasCoords(c, key)
                THEN Append(acc, BuiltRecord(list[i], c, "ikon"))
                ELSE acc)

\* main: the cache file is read (FileNotFoundError ends the run), the two
\* loops run, the list is sorted by name and written.  An empty cache stands
\* for a file holding {} and for a missing file; a file that does not hold
\* valid JSON makes json.load raise, which nothing catches.
BuildResorts ==
    /\ BeginRun("build_resorts")
    /\ \E found \in (IF resortCacheFile # EmptyCache THEN {TRUE}
                    ELSE IF world.free THEN BOOLEAN ELSE {world.cache_found}) :
         IF ~found \/ "resort" \in corrupt
         THEN /\ ResortBuildDone(<<>>, "aborted")
              /\ UNCHANGED resortsJson
         ELSE LET c == resortCacheFile
                  rs == IkonLoop(ikon_list, 1, c, EpicLoop(epic_list, 1, c, <<>>))
              IN  /\ resortsJson' = File(SortByName(rs))
                  /\ ResortBuildDone(SortByName(rs), "done")

(***************************************************************************)
(* enrich_resorts.py                                                       *)
(***************************************************************************)
\* a key a record of resorts.json does not have
Missing == "<missing>"

\* get_region(state) of enrich_resorts
enrich_get_region(state) ==
    IF state \in {"CO", "UT", "WY"} THEN "rockies"
    ELSE IF state \in {"MI"} THEN "midwest"
    ELSE "other"

\* faulty variant of the loop body: the id is set whether or not it is there
EnrichOverwritesId(resort) ==
    [resort EXCEPT
        !.id = CacheKey(resort.name, resort.state),
        !.passNetwork = get_pass_network(resort.name),
        !.region = enrich_get_region(resort.state)]

\* the body of the loop of main
Enrich(resort) ==
    [resort EXCEPT
        !.id = IF @ = Missing THEN CacheKey(resort.name, resort.state) ELSE @,
        !.passNetwork = get_pass_network(resort.name),
        !.region = enrich_get_region(resort.state)]

\* main: resorts.json is read (a missing file ends the run with the
\* exception), every record is enriched and the list is written as it is
EnrichResorts ==
    /\ BeginRun("enrich_resorts")
    /\ IF ~resortsJson.exists
       THEN /\ ResortBuildDone(<<>>, "aborted")
            /\ UNCHANGED resortsJson
       ELSE LET rs == [i \in 1..Len(resortsJson.data) |-> Enrich(resortsJson.data[i])]
            IN  /\ resortsJson' = File(rs)
                /\ ResortBuildDone(rs, "done")

(***************************************************************************)
(* fetch_osm_resorts.py                                                    *)
(***************************************************************************)
\* a latitude given in degrees, in thousandths of a mile
Deg(d) == d * 69093

\* an element of the Overpass answer; state is the addr:state tag; rev is
\* what the reverse geocoder answers for the element's coordinates
ResortElement(type, name, lat, state, rev) ==
    [type |-> type, name |-> name,
     lat |-> IF type = "node" THEN lat ELSE None,
     lon |-> IF type = "node" /\ lat # None THEN TheLon ELSE None,
     center_lat |-> IF type = "node" THEN None ELSE lat,
     center_lon |-> IF type = "node" \/ lat = None THEN None ELSE TheLon,
     state |-> state, rev |-> rev]

NoReverse == [kind |-> "error", state |-> NoName]

OsmResortElements ==
    {ResortElement("node", "Vail", Deg(39), "CO", NoReverse),
     ResortElement("way", "vail ", Deg(39), "CO", NoReverse),
     ResortElement("node", "Mt Brighton", Deg(42), NoName,
                   [kind |-> "ok", state |-> "Michigan"]),
     ResortElement("node", "Mt Brighton", Deg(42), NoName,
                   [kind |-> "ok", state |-> NoName]),
     ResortElement("way", "Mt Brighton", Deg(42), NoName, NoReverse),
     ResortElement("node", "Snow King", 0, "WY", NoReverse),
     ResortElement("way", "Snow King", Deg(43), "WY", NoReverse),
     ResortElement("way", "Aspen Snowmass", Deg(51), "CO", NoReverse),
     ResortElement("node", NoName, Deg(39), "CO", NoReverse)}

\* STATE_ABBREVS.get(state.upper(), state[:2].upper())
StateAbbrev(state) ==
    CASE state = "Michigan" -> "MI"
      [] state = "Colorado" -> "CO"
      [] state = "Wyoming" -> "WY"
      [] OTHER -> "??"

\* get_state_from_coords: the abbreviation, or None when the answer has no
\* state and on any exception
get_state_from_coords(rev) ==
    IF rev.kind = "ok" /\ rev.state # NoName THEN StateAbbrev(rev.state)
    ELSE NoName

\* get_region(state, lat, lon) of fetch_osm_resorts
osm_get_region(state, lat, lon) ==
    IF state \in {"MI"} THEN "midwest"
    ELSE IF state \in {"CO", "UT", "WY"} THEN "rockies"
    ELSE IF lon < -115 THEN "west"
    ELSE IF lon < -100 THEN "rockies"
    ELSE "midwest"

\* "24.0 < lat < 50.0 and -125.0 < lon < -66.0"
InUsBounds(lat, lon) ==
    Deg(24) < lat /\ lat < Deg(50) /\ -125 < lon /\ lon < -66

\* faulty variant of process_resorts: a name is marked as seen only when its
\* element is emitted
RECURSIVE ProcessResortsFromSeenOnEmit(_, _, _)
ProcessResortsFromSeenOnEmit(elements, i, acc) ==
    IF i > Len(elements) THEN acc.resorts
    ELSE LET el == elements[i]
             name_key == strip(lower(Chars(el.name)))
             p == ElementCoords(el)
             state == IF el.state # NoName THEN el.state
                      ELSE get_state_from_coords(el.rev)
             seen == [acc EXCEPT !.seen_names = @ \cup {name_key}]
         IN  ProcessResortsFromSeenOnEmit(elements, i + 1,
                IF el.name = NoName THEN acc
                ELSE IF name_key \in acc.seen_names THEN acc
                ELSE IF ~Truthy(p.lat) \/ ~Truthy(p.lon) THEN acc
                ELSE IF ~InUsBounds(p.lat, p.lon) THEN acc
                ELSE IF state = NoName THEN acc
                ELSE [seen EXCEPT !.resorts = Append(@,
                        [id |-> CacheKey(el.name, state), name |-> el.name,
                         state |-> state, lat |-> p.lat, lon |-> p.lon,
                         passNetwork |-> get_pass_network(el.name),
                         region |-> osm_get_region(state, p.lat, p.lon)])])

\* process_resorts, from element i on; acc holds resorts and seen_names
RECURSIVE ProcessResortsFrom(_, _, _)
ProcessResortsFrom(elements, i, acc) ==
    IF i > Len(elements) THEN acc.resorts
    ELSE LET el == elements[i]
             name_key == strip(lower(Chars(el.name)))
             p == ElementCoords(el)
             state == IF el.state # NoName THEN el.state
                      ELSE get_state_from_coords(el.rev)
             seen == [acc EXCEPT !.seen_names = @ \cup {name_key}]
         IN  ProcessResortsFrom(elements, i + 1,
                IF el.name = NoName THEN acc
                ELSE IF name_key \in acc.seen_names THEN acc
                ELSE IF ~Truthy(p.lat) \/ ~Truthy(p.lon) THEN seen
                ELSE IF ~InUsBounds(p.lat, p.lon) THEN seen
                ELSE IF state = NoName THEN seen
                ELSE [seen EXCEPT !.resorts = Append(@,
                        [id |-> CacheKey(el.name, state), name |-> el.name,
                         state |-> state, lat |-> p.lat, lon |-> p.lon,
                         passNetwork |-> get_pass_network(el.name),
                         region |-> osm_get_region(state, p.lat, p.lon)])])

process_resorts(elements) ==
    ProcessResortsFrom(elements, 1, [resorts |-> <<>>, seen_names |-> {}])

\* fetch_osm_resorts: the elements of the answer, or [] on RequestException
ResortOverpassResponses ==
    {[kind |-> "error", elements |-> <<>>]}
        \cup {[kind |-> "ok", elements |-> es] :
                es \in SeqsUpTo(OsmResortElements, MaxResortElements)}

ResortOverpassAnswers ==
    IF world.free THEN ResortOverpassResponses ELSE {world.resort_overpass}

fetch_osm_resorts(resp) ==
    IF resp.kind = "ok" THEN resp.elements ELSE <<>>

\* main: "if not elements: return", else process, sort by name, write
FetchOsmResorts ==
    /\ BeginRun("fetch_osm_resorts")
    /\ \E resp \in ResortOverpassAnswers :
         LET elements == fetch_osm_resorts(resp)
             rs == SortByName(process_resorts(elements))
         IN  /\ IF elements = <<>>
                THEN /\ ResortBuildDone(<<>>, "aborted")
                     /\ UNCHANGED resortsJson
                ELSE /\ resortsJson' = File(rs)
                     /\ ResortBuildDone(rs, "done")

(***************************************************************************)
(* The process is killed: its memory is lost, the files stay.              *)
(***************************************************************************)
\* keys this run sent out and got an answer for (it is in a cache)
ResolvedThisRun ==
    calledKeys \cap (DOMAIN cache \cup DOMAIN resortCacheFile
                       \cup DOMAIN facilityCacheFile \cup DOMAIN hospitalCacheFile)

Kill ==
    /\ ~Stopped
    /\ pc' = "killed"
    /\ resolvedPrior' = resolvedPrior \cup ResolvedThisRun
    /\ script' = "none"
    /\ idx' = 0
    /\ cache' = EmptyCache
    /\ resorts' = <<>> /\ data' = <<>> /\ df_facilities' = <<>> /\ lats' = <<>> /\ lons' = <<>>
    /\ need_geocode' = <<>> /\ hospitals' = <<>> /\ seen_ids' = {}
    /\ nCalls' = 0 /\ calledKeys' = {} /\ failedKeys' = {} /\ scanned' = {}
    /\ lastGeo' = NoGeo
    /\ dlFailed' = FALSE
    /\ srcFailed' = "none"
    /\ UNCHANGED <<disk, session, runs, outAtStart, completed, clinicsIn,
                   hospitalsIn, inputs, pure>>
    /\ inAtStart' = <<>>
    /\ lastReq' = NoReq /\ submitted' = <<>>
    /\ UNCHANGED erroredIds
    /\ UNCHANGED hist

(***************************************************************************)
(* Initial states: no cache and no output yet; resorts.json is absent or   *)
(* holds a list an earlier resort build wrote (distinct names, ascending). *)
(***************************************************************************)
ResortRecord(name, lat) ==
    [id |-> CacheKey(name, "CO"), name |-> name, state |-> "CO", lat |-> lat,
     lon |-> TheLon,
     passNetwork |-> IF name = "Vail" THEN "epic" ELSE "ikon",
     region |-> "rockies"]

InitialResortLists ==
    {<<>>}
        \cup {<<ResortRecord(n, lat)>> : n \in {"Aspen Snowmass", "Vail"}, lat \in ResortLats}
        \cup {<<ResortRecord("Aspen Snowmass", a), ResortRecord("Vail", v)>> :
                a \in ResortLats, v \in ResortLats}

\* the contents config.py may have: the lists as they are, or with a resort
\* of the Epic list entered in the Ikon list as well
ConfigLists ==
    {[epic |-> EPIC_RESORTS, ikon |-> IKON_RESORTS],
     [epic |-> EPIC_RESORTS,
      ikon |-> <<EPIC_RESORTS[1], IKON_RESORTS[2]>>]}

\* resort_geocoded_cache.json as earlier runs of generate_data may have left
\* it: a resort is absent, resolved, or cached as a failure
BuildResortCaches ==
    LET keys == {"Vail|CO", "Aspen Snowmass|CO"}
        entries == {[lat |-> l, lon |-> IF l = None THEN None ELSE TheLon] :
                      l \in ResortLats \cup {None}}
    IN  UNION {[S -> entries] : S \in SUBSET keys}

\* hospital_geocode_cache.json as a run that resolved every hospital of the
\* ski states has left it
FullHospitalCache ==
    [fid \in {rows[i].id : i \in 1..Len(rows)} |->
        [lat |-> 149, lon |-> TheLon, failed |-> FALSE]]

\* a record of a resorts.json that enrich_resorts is run on: it may lack its
\* id or have an id of another make, and has no passNetwork and no region yet
EnrichInput(name, state, id) ==
    [id |-> id, name |-> name, state |-> state, lat |-> 149, lon |-> TheLon,
     passNetwork |-> Missing, region |-> Missing]

EnrichInputs ==
    LET named == <<[name |-> "Aspen Snowmass", state |-> "CO"],
                   [name |-> "Mt Brighton", state |-> "MI"],
                   [name |-> "Snow King", state |-> "WY"],
                   [name |-> "Vail", state |-> "CO"]>>
        Recs(i) == {EnrichInput(named[i].name, named[i].state, id) :
                      id \in {Missing, CacheKey(named[i].name, named[i].state)}
                                \cup (IF named[i].name = "Vail" THEN {"vail-co"}
                                      ELSE {})}
    IN  {<<>>}
            \cup {<<r>> : r \in UNION {Recs(i) : i \in 1..Len(named)}}
            \cup UNION {{<<a, b>> : a \in Recs(p[1]), b \in Recs(p[2])} :
                          p \in {q \in (1..Len(named)) \X (1..Len(named)) :
                                   q[1] < q[2]}}

InitState ==
    /\ session \in Scripts
    /\ \E ls \in (IF session \in {"generate_data", "build_resorts"} THEN ConfigLists
                   ELSE {[epic |-> EPIC_RESORTS, ikon |-> IKON_RESORTS]}) :
          epic_list = ls.epic /\ ikon_list = ls.ikon
    /\ resortsJson \in {NoFile} \cup
          {File(l) : l \in (IF session = "enrich_resorts" THEN EnrichInputs
                            ELSE InitialResortLists)}
    /\ clinicsJson = NoFile
    /\ hospitalsJson = NoFile
    /\ resortCacheFile \in (IF session = "build_resorts" THEN BuildResortCaches
                            ELSE {EmptyCache})
    /\ facilityCacheFile = EmptyCache
    /\ hospitalCacheFile \in (IF session = "fetch_cms_hospitals"
                              THEN {EmptyCache, FullHospitalCache}
                              ELSE {EmptyCache})
    /\ script = "none"
    /\ pc = "idle"
    /\ idx = 0
    /\ cache = EmptyCache
    /\ resorts = <<>> /\ data = <<>> /\ df_facilities = <<>> /\ lats = <<>> /\ lons = <<>>
    /\ need_geocode = <<>> /\ hospitals = <<>> /\ seen_ids = {}
    /\ runs = 0
    /\ nCalls = 0 /\ calledKeys = {} /\ failedKeys = {} /\ scanned = {}
    /\ lastGeo = NoGeo
    /\ resolvedPrior = {}
    /\ dlFailed = FALSE
    /\ srcFailed = "none"
    /\ inAtStart = <<>> /\ lastRun = NoRun /\ prevRun = NoRun
    /\ lastReq = NoReq /\ submitted = <<>> /\ corrupt = {}
    /\ erroredIds = {}
    /\ chain_name = <<>> /\ provider = "unset"
    /\ outAtStart = <<resortsJson, clinicsJson, hospitalsJson>>
    /\ completed = {}
    /\ clinicsIn = NoMatchIn
    /\ hospitalsIn = NoMatchIn

Init == InitState /\ world = FreeWorld

Next ==
    \/ GenerateDataStart
    \/ GeocodeResort
    \/ SaveResortCache
    \/ DownloadDialysisData
    \/ GeocodeClinic
    \/ SaveFacilityCache
    \/ GenerateOutputs
    \/ CmsStart
    \/ CmsDownload
    \/ CmsBatch
    \/ CmsOutput
    \/ OsmStart
    \/ OsmFetchState
    \/ OsmWrite
    \/ BuildHospitals
    \/ BuildResorts
    \/ EnrichResorts
    \/ FetchOsmResorts
    \/ Kill

Spec == Init /\ [][Next]_vars

(***************************************************************************)
(* Repeated runs in a fixed world: the external services give every        *)
(* request the same answer in every run, and no run is killed.             *)
(***************************************************************************)
DefaultWorld ==
    [free |-> FALSE,
     nominatim |-> [k \in {"Vail|CO", "Aspen Snowmass|CO"} |->
                      [kind |-> "empty", lat |-> None, lon |-> None]],
     census |-> [c \in {DialysisRows[i].ccn : i \in 1..Len(DialysisRows)} |->
                   [kind |-> "empty", lat |-> None, lon |-> None]],
     meta |-> "ok", csv |-> "ok",
     batch |-> [fid \in {rows[i].id : i \in 1..Len(rows)} |-> Absent],
     batch_error |-> FALSE,
     overpass |-> [i \in 1..Len(OSM_SKI_STATES) |->
                     [kind |-> "error", elements |-> <<>>]],
     resort_overpass |-> [kind |-> "error", elements |-> <<>>],
     cache_found |-> TRUE]

Worlds(s) ==
    CASE s = "generate_data" ->
            {[DefaultWorld EXCEPT !.nominatim = n, !.census = c, !.meta = m,
                                  !.csv = v] :
               n \in [DOMAIN DefaultWorld.nominatim -> NominatimResponses],
               c \in [DOMAIN DefaultWorld.census -> CensusResponses],
               m \in {"ok", "fail"}, v \in {"ok", "fail"}}
      [] s = "fetch_cms_hospitals" ->
            {[DefaultWorld EXCEPT !.batch = b, !.meta = m, !.csv = v] :
               b \in [DOMAIN DefaultWorld.batch -> BatchRows \cup {Absent}],
               m \in {"ok", "fail"}, v \in {"ok", "fail"}}
                \cup {[DefaultWorld EXCEPT !.batch_error = TRUE]}
      [] s = "fetch_osm_hospitals" ->
            {[DefaultWorld EXCEPT !.overpass = o] :
               o \in [DOMAIN DefaultWorld.overpass -> OverpassResponses]}
      [] s = "fetch_osm_resorts" ->
            {[DefaultWorld EXCEPT !.resort_overpass = o] :
               o \in ResortOverpassResponses}
      [] s = "build_resorts" ->
            {[DefaultWorld EXCEPT !.cache_found = f] : f \in BOOLEAN}
      [] OTHER -> {DefaultWorld}

\* resorts.json is no input of generate_data: it starts without the file
InitReplay ==
    /\ InitState
    /\ session = "generate_data" => ~resortsJson.exists
    /\ world \in Worlds(session)

NextReplay ==
    \/ GenerateDataStart
    \/ GeocodeResort
    \/ SaveResortCache
    \/ DownloadDialysisData
    \/ GeocodeClinic
    \/ SaveFacilityCache
    \/ GenerateOutputs
    \/ CmsStart
    \/ CmsDownload
    \/ CmsBatch
    \/ CmsOutput
    \/ OsmStart
    \/ OsmFetchState
    \/ OsmWrite
    \/ BuildHospitals
    \/ BuildResorts
    \/ EnrichResorts
    \/ FetchOsmResorts

SpecReplay == InitReplay /\ [][NextReplay]_vars

(***************************************************************************)
(* A kill while a cache file is being saved.  save_json_cache and save_json *)
(* open the file with mode "w", which empties it, and json.dump writes the *)
(* text piece by piece: a process killed in between leaves a prefix of the *)
(* text, which is not valid JSON.  No entry can be read from such a file:  *)
(* it is kept as the empty cache and entered in corrupt.  What the killed  *)
(* step had looked up and not yet saved goes with the memory.              *)
(***************************************************************************)
\* the memory and the observers of a process that is gone
MemoryLost ==
    /\ pc' = "killed"
    /\ resolvedPrior' = resolvedPrior \cup ResolvedThisRun
    /\ script' = "none"
    /\ idx' = 0
    /\ cache' = EmptyCache
    /\ resorts' = <<>> /\ data' = <<>> /\ df_facilities' = <<>>
    /\ lats' = <<>> /\ lons' = <<>>
    /\ need_geocode' = <<>> /\ hospitals' = <<>> /\ seen_ids' = {}
    /\ nCalls' = 0 /\ calledKeys' = {} /\ failedKeys' = {} /\ scanned' = {}
    /\ lastGeo' = NoGeo
    /\ dlFailed' = FALSE
    /\ srcFailed' = "none"
    /\ inAtStart' = <<>>
    /\ lastReq' = NoReq /\ submitted' = <<>>
    /\ UNCHANGED <<resortsJson, clinicsJson, hospitalsJson, session, runs,
                   outAtStart, completed, clinicsIn, hospitalsIn, erroredIds,
                   inputs, pure, hist>>

\* the process is killed inside geocoder.save() at the end of geocode_resorts
KillSavingResortCache ==
    /\ pc = "geocode_resorts"
    /\ idx > Len(us_resorts)
    /\ resortCacheFile' = EmptyCache
    /\ corrupt' = corrupt \cup {"resort"}
    /\ UNCHANGED <<facilityCacheFile, hospitalCacheFile>>
    /\ MemoryLost

\* the process is killed inside geocoder.save() in geocode_clinics: the save
\* of the loop, after the lookup of row idx, or the save after the loop
KillSavingFacilityCache ==
    /\ pc = "geocode_clinics"
    /\ idx > Len(df_facilities) \/ SaveDue(idx, Len(df_facilities))
    /\ facilityCacheFile' = EmptyCache
    /\ corrupt' = corrupt \cup {"facility"}
    /\ MemoryLost
    /\ UNCHANGED <<resortCacheFile, hospitalCacheFile>>

\* the process is killed inside save_json(CACHE_FILE, cache) of a batch
KillSavingHospitalCache ==
    /\ pc = "cms_batch"
    /\ idx < total_batches
    /\ hospitalCacheFile' = EmptyCache
    /\ corrupt' = corrupt \cup {"hospital"}
    /\ MemoryLost
    /\ UNCHANGED <<resortCacheFile, facilityCacheFile>>

\* the scripts that keep a cache file, with kills at any point;
\* fetch_cms_hospitals starts on one resorts.json and without a cache
InitCrash ==
    /\ Init
    /\ session \in {"generate_data", "fetch_cms_hospitals"}
    /\ session = "fetch_cms_hospitals" =>
          /\ resortsJson = File(<<ResortRecord("Aspen Snowmass", 149),
                                  ResortRecord("Vail", 200149)>>)
          /\ hospitalCacheFile = EmptyCache

NextCrash ==
    \/ GenerateDataStart
    \/ GeocodeResort
    \/ SaveResortCache
    \/ DownloadDialysisData
    \/ GeocodeClinic
    \/ SaveFacilityCache
    \/ GenerateOutputs
    \/ CmsStart
    \/ CmsDownload
    \/ CmsBatch
    \/ CmsOutput
    \/ Kill
    \/ KillSavingResortCache
    \/ KillSavingFacilityCache
    \/ KillSavingHospitalCache

SpecCrash == InitCrash /\ [][NextCrash]_vars

(***************************************************************************)
(* config.classify_provider.  A string is the sequence of its characters. *)
(***************************************************************************)
\* str.upper on the letters that occur in the model
UpperOf ==
    [a |-> "A", c |-> "C", d |-> "D", e |-> "E", f |-> "F", i |-> "I",
     l |-> "L", m |-> "M", n |-> "N", r |-> "R", s |-> "S", t |-> "T",
     u |-> "U", v |-> "V", y |-> "Y"]

upper(str) ==
    [k \in 1..Len(str) |->
        IF str[k] \in DOMAIN UpperOf THEN UpperOf[str[k]] ELSE str[k]]


\* PROVIDER_CHAINS, in the insertion order a dict is iterated in
PROVIDER_CHAINS ==
    <<[key |-> <<"D", "A", "V", "I", "T", "A">>, value |-> "davita"],
      [key |-> <<"F", "R", "E", "S", "E", "N", "I", "U", "S">>,
       value |-> "fresenius"],
      [key |-> <<"F", "M", "C">>, value |-> "fresenius"],
      [key |-> <<"D", "I", "A", "L", "Y", "S", "I", "S", " ",
                 "C", "L", "I", "N", "I", "C">>, value |-> "independent"]>>

\* faulty variant of classify_provider: the input is not uppercased
RECURSIVE FirstRuleCaseSensitive(_, _)
FirstRuleCaseSensitive(text, k) ==
    IF k > Len(PROVIDER_CHAINS) THEN "other"
    ELSE IF Contains(PROVIDER_CHAINS[k].key, text) THEN PROVIDER_CHAINS[k].value
    ELSE FirstRuleCaseSensitive(text, k + 1)

classify_provider_case_sensitive(name) ==
    IF name = <<>> THEN "other" ELSE FirstRuleCaseSensitive(name, 1)

\* "for key, value in PROVIDER_CHAINS.items(): if key in upper: return value",
\* from rule k on; "other" after the last rule
RECURSIVE FirstRule(_, _)
FirstRule(text, k) ==
    IF k > Len(PROVIDER_CHAINS) THEN "other"
    ELSE IF Contains(PROVIDER_CHAINS[k].key, text) THEN PROVIDER_CHAINS[k].value
    ELSE FirstRule(text, k + 1)

classify_provider(name) ==
    IF name = <<>> THEN "other" ELSE FirstRule(upper(name), 1)

\* pieces of chain organization names
Fragments ==
    {<<"D", "a", "V", "i", "t", "a">>,
     <<"F", "r", "e", "s", "e", "n", "i", "u", "s">>,
     <<"f", "m", "c">>, <<"F">>, <<"M", "C">>,
     <<"D", "i", "a", "l", "y", "s", "i", "s">>,
     <<" ", "C", "l", "i", "n", "i", "c">>,
     <<"A", "c", "m", "e">>}

RECURSIVE ChainNamesOf(_)
ChainNamesOf(n) ==
    IF n = 0 THEN {<<>>}
    ELSE LET shorter == ChainNamesOf(n - 1)
         IN  shorter \cup {q \o f : q \in shorter, f \in Fragments}

ChainNames == ChainNamesOf(MaxFragments)

\* one call of classify_provider
ClassifyProvider ==
    /\ provider = "unset"
    /\ provider' = classify_provider(chain_name)
    /\ UNCHANGED <<disk, mem, obs, inputs, chain_name>>

ClassifyInit ==
    /\ world = FreeWorld
    /\ chain_name \in ChainNames
    /\ provider = "unset"
    /\ session = "none"
    /\ resortsJson = NoFile /\ clinicsJson = NoFile /\ hospitalsJson = NoFile
    /\ resortCacheFile = EmptyCache
    /\ facilityCacheFile = EmptyCache
    /\ hospitalCacheFile = EmptyCache
    /\ script = "none" /\ pc = "idle" /\ idx = 0
    /\ cache = EmptyCache
    /\ resorts = <<>> /\ data = <<>> /\ df_facilities = <<>> /\ lats = <<>> /\ lons = <<>>
    /\ need_geocode = <<>> /\ hospitals = <<>> /\ seen_ids = {}
    /\ runs = 0
    /\ nCalls = 0 /\ calledKeys = {} /\ failedKeys = {} /\ scanned = {}
    /\ lastGeo = NoGeo
    /\ resolvedPrior = {}
    /\ dlFailed = FALSE
    /\ srcFailed = "none"
    /\ inAtStart = <<>> /\ lastRun = NoRun /\ prevRun = NoRun
    /\ lastReq = NoReq /\ submitted = <<>> /\ corrupt = {}
    /\ erroredIds = {}
    /\ epic_list = EPIC_RESORTS /\ ikon_list = IKON_RESORTS
    /\ outAtStart = <<resortsJson, clinicsJson, hospitalsJson>>
    /\ completed = {}
    /\ clinicsIn = NoMatchIn
    /\ hospitalsIn = NoMatchIn

ClassifyNext == ClassifyProvider

SpecClassify == ClassifyInit /\ [][ClassifyNext]_vars

(***************************************************************************)
(* Properties.                                                             *)
(***************************************************************************)
\* the records of an output file, and their range of indexes
Records(file) == IF file.exists THEN file.data ELSE <<>>

\* the distance from a point to a resort record
DistTo(lat, lon, r) == haversine_miles(lat, lon, r.lat, r.lon)

\* the least distance from a point to the resorts of a list (Inf when empty)
MinDistOver(lat, lon, rs) ==
    IF rs = <<>> THEN Inf
    ELSE LET ds == {DistTo(lat, lon, rs[k]) : k \in 1..Len(rs)}
         IN  CHOOSE d \in ds : \A e \in ds : d <= e

\* the record rec names a resort of rs that no resort of rs is nearer than,
\* and carries that distance rounded to nd decimals
NamesNearest(rec, rs, nd) ==
    \E j \in 1..Len(rs) :
        /\ rs[j].name = rec.nearestResort
        /\ \A k \in 1..Len(rs) :
             DistTo(rec.lat, rec.lon, rs[j]) <= DistTo(rec.lat, rec.lon, rs[k])
        /\ rec.nearestResortDist = round(DistTo(rec.lat, rec.lon, rs[j]), nd)

\* C1: in every pipeline that assigns a nearest resort, the resort reported
\* for a facility is one that minimises the haversine distance over the whole
\* resort list the run matched against, and the reported distance is that
\* minimum, rounded (2 decimals for clinics, 1 for hospitals).
C1_NearestIsMinimal ==
    /\ \A i \in 1..Len(Records(clinicsJson)) :
         LET rec == clinicsJson.data[i]
         IN  rec.nearestResort # NoName => NamesNearest(rec, clinicsIn.resorts, 2)
    /\ \A i \in 1..Len(Records(hospitalsJson)) :
         LET rec == hospitalsJson.data[i]
         IN  rec.nearestResort # NoName => NamesNearest(rec, hospitalsIn.resorts, 1)

\* C1 happens: a written clinic names the second resort of a two-resort list,
\* the first one being farther away
C1_Witness ==
    /\ clinicsIn.written
    /\ Len(clinicsIn.resorts) = 2
    /\ \E i \in 1..Len(Records(clinicsJson)) :
         LET rec == clinicsJson.data[i]
         IN  /\ rec.nearestResort = clinicsIn.resorts[2].name
             /\ DistTo(rec.lat, rec.lon, clinicsIn.resorts[1])
                  > DistTo(rec.lat, rec.lon, clinicsIn.resorts[2])

\* a facility that reached the nearest-resort scan is, or is not, in a file
Emitted(file, f) ==
    \E i \in 1..Len(Records(file)) :
        LET rec == file.data[i]
        IN  rec.lat = f.lat /\ rec.lon = f.lon
            /\ (IF "ccn" \in DOMAIN rec THEN rec.ccn ELSE rec.id) = f.id

HasRecordOf(file, f) ==
    \E i \in 1..Len(Records(file)) :
        LET rec == file.data[i]
        IN  (IF "ccn" \in DOMAIN rec THEN rec.ccn ELSE rec.id) = f.id

ThresholdKept(file, in, threshold) ==
    \A f \in in.facs :
        LET d == MinDistOver(f.lat, f.lon, in.resorts)
        IN  /\ d > threshold => ~Emitted(file, f)
            /\ d = threshold => HasRecordOf(file, f)

\* C2: in the thresholded pipelines a facility whose least distance over all
\* resorts exceeds the threshold (200 mi clinics, 200 mi CMS hospitals, 100 mi
\* OSM hospitals) is never written, and a facility exactly at the threshold is
\* kept.
C2_ThresholdFilter ==
    /\ clinicsIn.written =>
         ThresholdKept(clinicsJson, clinicsIn, MAX_CLINIC_DISTANCE)
    /\ (hospitalsIn.written /\ hospitalsIn.by = "fetch_cms_hospitals") =>
         ThresholdKept(hospitalsJson, hospitalsIn, CMS_MAX_DISTANCE_MILES)
    /\ (hospitalsIn.written /\ hospitalsIn.by = "fetch_osm_hospitals") =>
         ThresholdKept(hospitalsJson, hospitalsIn, OSM_MAX_DISTANCE_MILES)

\* C2 happens: one run of generate_data met a clinic exactly at 200 miles,
\* which it wrote, and a clinic beyond 200 miles, which it left out
C2_Witness ==
    /\ clinicsIn.written
    /\ \E f \in clinicsIn.facs :
         /\ MinDistOver(f.lat, f.lon, clinicsIn.resorts) = MAX_CLINIC_DISTANCE
         /\ Emitted(clinicsJson, f)
    /\ \E f \in clinicsIn.facs :
         /\ MinDistOver(f.lat, f.lon, clinicsIn.resorts) > MAX_CLINIC_DISTANCE
         /\ MinDistOver(f.lat, f.lon, clinicsIn.resorts) < Inf
         /\ ~Emitted(clinicsJson, f)

\* C3: in every written facility record nearestResort and nearestResortDist
\* are both null or both set, the run over an empty resort list included.
C3_BothOrNeither ==
    /\ \A i \in 1..Len(Records(clinicsJson)) :
         (clinicsJson.data[i].nearestResort = NoName)
            <=> (clinicsJson.data[i].nearestResortDist = None)
    /\ \A i \in 1..Len(Records(hospitalsJson)) :
         (hospitalsJson.data[i].nearestResort = NoName)
            <=> (hospitalsJson.data[i].nearestResortDist = None)

\* C3 happens: build_hospitals wrote its records over an empty resort list
C3_Witness ==
    /\ hospitalsIn.written
    /\ hospitalsIn.by = "build_hospitals"
    /\ hospitalsIn.resorts = <<>>
    /\ \E i \in 1..Len(Records(hospitalsJson)) :
         /\ hospitalsJson.data[i].nearestResort = NoName
         /\ hospitalsJson.data[i].nearestResortDist = None

\* a step of a geocoding loop of generate_data hands one key to geocode()
GeocodeReturns ==
    /\ pc \in {"geocode_resorts", "geocode_clinics"}
    /\ idx' = idx + 1

GeocodeKey ==
    IF pc = "geocode_resorts"
    THEN CacheKey(us_resorts[idx].name, us_resorts[idx].state)
    ELSE df_facilities[idx].ccn

\* C4: geocode() of ResortGeocoder and FacilityGeocoder makes no external
\* call when the key is in the in-memory cache and returns the cached value
\* (a cached failure as (None, None)); on a miss it makes exactly one call,
\* after which the key is in the in-memory cache holding that call's result,
\* success or failure.
C4_GeocodeCacheContract ==
    [][GeocodeReturns =>
         LET key == GeocodeKey
             lat == IF pc = "geocode_resorts" THEN data'[idx].lat ELSE lats'[idx]
             lon == IF pc = "geocode_resorts" THEN data'[idx].lon ELSE lons'[idx]
         IN  IF key \in DOMAIN cache
             THEN /\ nCalls' = nCalls
                  /\ cache' = cache
                  /\ lat = cache[key].lat /\ lon = cache[key].lon
             ELSE /\ nCalls' = nCalls + 1
                  /\ key \in DOMAIN cache'
                  /\ cache'[key].lat = lastGeo'.lat /\ cache'[key].lon = lastGeo'.lon
                  /\ lat = lastGeo'.lat /\ lon = lastGeo'.lon]_vars

\* C4 happens: a resort whose lookup failed in an earlier run is answered
\* from the cache as (None, None) without a call
C4_Witness ==
    /\ pc = "geocode_resorts"
    /\ idx > 1
    /\ lastGeo.hit
    /\ lastGeo.key \in DOMAIN cache
    /\ cache[lastGeo.key].lat = None
    /\ data[idx - 1].lat = None /\ data[idx - 1].lon = None
    /\ nCalls = 0

\* C5: a run of generate_data or fetch_cms_hospitals that follows a completed
\* run of the same script, with unchanged inputs and intact cache files,
\* makes no external geocoding call.
C5_SecondRunMakesNoCall ==
    (/\ script \in {"generate_data", "fetch_cms_hospitals"}
     /\ script \in completed
     /\ pc # "done") => (nCalls = 0 /\ calledKeys = {})

\* C6: after a run is killed and the script is started again, no key the
\* killed run had resolved is sent to a geocoder again.
C6_ResolvedKeysNotRequeried ==
    calledKeys \cap resolvedPrior = {}

\* C7: when the facility-list download fails, no output dataset is written
\* or overwritten by that run.
C7_DownloadFailureKeepsOutputs ==
    dlFailed => <<resortsJson, clinicsJson, hospitalsJson>> = outAtStart

\* C7 happens: the download failed in a run that found datasets of an
\* earlier run on disk
C7_Witness ==
    /\ dlFailed
    /\ pc = "aborted"
    /\ script = "generate_data"
    /\ clinicsJson.exists /\ resortsJson.exists

\* C8: the failure of one geocode lookup never ends the run: the run handles
\* the remaining resorts and facilities and writes its outputs, and the
\* entity whose lookup failed is absent from them.
C8_GeocodeFailureDoesNotAbort ==
    /\ (script = "generate_data" /\ pc = "aborted") => dlFailed
    /\ (script = "fetch_cms_hospitals" /\ pc = "aborted") =>
         (dlFailed \/ resorts = <<>>)
    /\ (script = "generate_data" /\ pc = "done") =>
         /\ Len(data) = Len(us_resorts)
         /\ Len(lats) = Len(df_facilities)
         /\ clinicsIn.written /\ resortsJson.exists /\ clinicsJson.exists
         /\ \A i \in 1..Len(data) :
              NotNa(data[i]) =>
                \E j \in 1..Len(resortsJson.data) : resortsJson.data[j].id = data[i].id
         /\ \A j \in 1..Len(resortsJson.data) : resortsJson.data[j].id \notin failedKeys
         /\ \A j \in 1..Len(clinicsJson.data) : clinicsJson.data[j].ccn \notin failedKeys
    /\ (script = "fetch_cms_hospitals" /\ pc = "done") =>
         /\ hospitalsIn.written /\ hospitalsJson.exists
         /\ \A j \in 1..Len(hospitalsJson.data) : hospitalsJson.data[j].id \notin failedKeys

\* C8 happens: generate_data finished a run in which one resort lookup and
\* one clinic lookup failed, and wrote the other resort and the other clinic
C8_Witness ==
    /\ script = "generate_data"
    /\ pc = "done"
    /\ \E i \in 1..Len(us_resorts) :
         CacheKey(us_resorts[i].name, us_resorts[i].state) \in failedKeys
    /\ \E i \in 1..Len(df_facilities) : df_facilities[i].ccn \in failedKeys
    /\ Records(resortsJson) # <<>>
    /\ Records(clinicsJson) # <<>>

BothNull(rec) == rec.nearestResort = NoName /\ rec.nearestResortDist = None

\* C9: over an empty resort list build_hospitals still writes every hospital,
\* each with nearestResort and nearestResortDist null, and the thresholded
\* pipelines write no facility that carries a resort.
C9_EmptyResortList ==
    /\ (hospitalsIn.written /\ hospitalsIn.resorts = <<>>) =>
         /\ hospitalsIn.by = "build_hospitals"
         /\ Len(hospitalsJson.data) = Len(HOSPITALS)
         /\ \A i \in 1..Len(hospitalsJson.data) : BothNull(hospitalsJson.data[i])
    /\ (clinicsIn.written /\ clinicsIn.resorts = <<>>) =>
         \A i \in 1..Len(clinicsJson.data) : BothNull(clinicsJson.data[i])

\* C9 happens: generate_data matched geocoded clinics against no resort at
\* all and wrote none of them
C9_Witness ==
    /\ clinicsIn.written
    /\ clinicsIn.resorts = <<>>
    /\ clinicsIn.facs # {}
    /\ Records(clinicsJson) = <<>>

Coincident(f, r) == r.lat = f.lat /\ r.lon = f.lon

\* the records a file holds for a facility that reached the scan
RecordsOf(file, f) ==
    {i \in 1..Len(Records(file)) :
        /\ file.data[i].lat = f.lat /\ file.data[i].lon = f.lon
        /\ (IF "ccn" \in DOMAIN file.data[i] THEN file.data[i].ccn
            ELSE file.data[i].id) = f.id}

\* the first resort of the list, in list order, at the facility's coordinate
FirstCoincident(f, rs) ==
    CHOOSE j \in 1..Len(rs) :
        /\ Coincident(f, rs[j])
        /\ \A k \in 1..(j - 1) : ~Coincident(f, rs[k])

\* C10 as stated: a facility whose coordinates equal those of a resort R of
\* the list is reported with R as nearestResort, whatever other resorts the
\* list holds and in whatever order.
C10_CoincidentResortReported ==
    /\ \A f \in clinicsIn.facs : \A j \in 1..Len(clinicsIn.resorts) :
         Coincident(f, clinicsIn.resorts[j]) =>
           \A i \in RecordsOf(clinicsJson, f) :
              clinicsJson.data[i].nearestResort = clinicsIn.resorts[j].name
    /\ \A f \in hospitalsIn.facs : \A j \in 1..Len(hospitalsIn.resorts) :
         Coincident(f, hospitalsIn.resorts[j]) =>
           \A i \in RecordsOf(hospitalsJson, f) :
              hospitalsJson.data[i].nearestResort = hospitalsIn.resorts[j].name

CoincidentReported(file, in) ==
    \A f \in in.facs :
        (\E j \in 1..Len(in.resorts) : Coincident(f, in.resorts[j])) =>
           /\ in.by # "fetch_osm_hospitals" => RecordsOf(file, f) # {}
           /\ \A i \in RecordsOf(file, f) :
                /\ file.data[i].nearestResort
                     = in.resorts[FirstCoincident(f, in.resorts)].name
                /\ file.data[i].nearestResortDist = 0

\* C10, amended: a facility whose coordinates equal those of a resort of the
\* list is reported at distance 0 with the first resort, in list order, that
\* lies at that coordinate: R itself unless a resort listed before R shares
\* R's coordinates.
C10_FirstCoincidentResortReported ==
    /\ CoincidentReported(clinicsJson, clinicsIn)
    /\ CoincidentReported(hospitalsJson, hospitalsIn)

\* C10 happens: a hospital lies on the second resort of a two-resort list,
\* the first resort lies elsewhere, and the record names the second
C10_Witness ==
    /\ hospitalsIn.written
    /\ Len(hospitalsIn.resorts) = 2
    /\ \E f \in hospitalsIn.facs :
         /\ Coincident(f, hospitalsIn.resorts[2])
         /\ ~Coincident(f, hospitalsIn.resorts[1])
         /\ \E i \in RecordsOf(hospitalsJson, f) :
              hospitalsJson.data[i].nearestResort = hospitalsIn.resorts[2].name

\* the rule table of classify_provider read off by hand: which category an
\* uppercased text falls in
CategoryOf(text) ==
    IF Contains(<<"D", "A", "V", "I", "T", "A">>, text) THEN "davita"
    ELSE IF Contains(<<"F", "R", "E", "S", "E", "N", "I", "U", "S">>, text)
            \/ Contains(<<"F", "M", "C">>, text) THEN "fresenius"
    ELSE IF Contains(<<"D", "I", "A", "L", "Y", "S", "I", "S", " ",
                       "C", "L", "I", "N", "I", "C">>, text) THEN "independent"
    ELSE "other"

\* C11: classify_provider returns the category of the first rule, in the
\* order DAVITA, FRESENIUS, FMC, DIALYSIS CLINIC, whose substring occurs in
\* the uppercased input, and other when none does or the input is empty; the
\* value is always one of davita, fresenius, independent, other.
C11_FirstRuleWins ==
    provider # "unset" =>
        /\ provider \in {"davita", "fresenius", "independent", "other"}
        /\ provider = CategoryOf(upper(chain_name))
        /\ chain_name = <<>> => provider = "other"

\* C11 happens: a mixed-case name that holds both DaVita and fmc was
\* classified by the earlier rule
C11_Witness ==
    /\ provider = "davita"
    /\ Contains(<<"f", "m", "c">>, chain_name)
    /\ Contains(<<"D", "a", "V", "i", "t", "a">>, chain_name)

(***************************************************************************)
(* C12.  Pass network of the records of a resort dataset.                  *)
(***************************************************************************)
ResortBuilders == {"generate_data", "build_resorts", "fetch_osm_resorts",
                   "enrich_resorts"}
NameMatching == {"fetch_osm_resorts", "enrich_resorts"}

\* the resort of record r is an entry of the list
Listed(list, r) ==
    \E i \in 1..Len(list) : list[i].name = r.name /\ list[i].state = r.state

\* a pattern of the set occurs in the lower-cased name
NameMatches(patterns, name) ==
    \E pat \in patterns :
        \E k \in 1..Len(Chars(name)) :
            /\ k + Len(pat) - 1 <= Len(Chars(name))
            /\ \A j \in 1..Len(pat) : lower(Chars(name))[k + j - 1] = pat[j]

InEpicSet(r) ==
    IF session \in NameMatching THEN NameMatches(NAME_EPIC_RESORTS, r.name)
    ELSE Listed(epic_list, r)

InIkonSet(r) ==
    IF session \in NameMatching THEN NameMatches(NAME_IKON_RESORTS, r.name)
    ELSE Listed(ikon_list, r)

\* C12: in the resort dataset a finished resort build has written, a record
\* is "both" only if its resort is in the Epic set and in the Ikon set; a
\* resort in exactly one set has that network; under name matching a resort
\* in neither set is "independent"
C12_PassNetworkFollowsMembership ==
    (session \in ResortBuilders /\ session \in completed) =>
        \A r \in SeqToSet(Records(resortsJson)) :
            /\ r.passNetwork = "both" => (InEpicSet(r) /\ InIkonSet(r))
            /\ (InEpicSet(r) /\ ~InIkonSet(r)) => r.passNetwork = "epic"
            /\ (InIkonSet(r) /\ ~InEpicSet(r)) => r.passNetwork = "ikon"
            /\ (session \in NameMatching /\ ~InEpicSet(r) /\ ~InIkonSet(r))
                  => r.passNetwork = "independent"

\* enrich_resorts has written a dataset with a resort of both networks
\* ("Mt Brighton") next to one of neither
C12_Witness ==
    /\ session = "enrich_resorts" /\ session \in completed
    /\ \E r \in SeqToSet(Records(resortsJson)) : r.passNetwork = "both"
    /\ \E r \in SeqToSet(Records(resortsJson)) : r.passNetwork = "independent"

(***************************************************************************)
(* C13.  Ids of a resort dataset.                                          *)
(***************************************************************************)
\* C13: the resort dataset a finished resort build has written has pairwise
\* distinct ids, and the id of every record is "name|state" of the record
C13_IdsDistinctAndDerived ==
    (session \in ResortBuilders /\ session \in completed) =>
        LET rs == Records(resortsJson)
        IN  /\ \A i \in 1..Len(rs) : rs[i].id = CacheKey(rs[i].name, rs[i].state)
            /\ \A i \in 1..Len(rs) : \A j \in 1..Len(rs) :
                  rs[i].id = rs[j].id => i = j

(***************************************************************************)
(* C14.  Order of the output datasets.                                     *)
(***************************************************************************)
ResortKey(r) == <<StrRank(r.name)>>
ClinicKey(c) == <<StrRank(c.state), StrRank(c.city), StrRank(c.facility)>>
HospitalKey(h) ==
    IF session = "build_hospitals" THEN <<StrRank(h.state), StrRank(h.city)>>
    ELSE <<StrRank(h.state), StrRank(h.name)>>

\* no record of the list has a smaller key than a record before it
Ascending(rs, Key(_)) ==
    \A i \in 1..Len(rs) : \A j \in 1..Len(rs) :
        i < j => ~KeyLess(Key(rs[j]), Key(rs[i]))

C16_SubmittedIdsCached ==
    script = "fetch_cms_hospitals" =>
        /\ calledKeys \subseteq DOMAIN cache
        /\ calledKeys \subseteq DOMAIN hospitalCacheFile

(***************************************************************************)
(* C17.  Cache entries are permanent.                                      *)
(***************************************************************************)
\* every entry of c is in d, with the same value
EntriesKept(c, d) == \A k \in DOMAIN c : k \in DOMAIN d /\ d[k] = c[k]

C18_ResolvedFacilitiesMatched ==
    /\ (session = "fetch_cms_hospitals" /\ pc = "done") =>
          \A i \in 1..Len(rows) :
              LET p == CachedCoords(cache, rows[i].id)
              IN  (/\ p.lat # None /\ p.lon # None
                   /\ MinDistOver(p.lat, p.lon, resorts) <= CMS_MAX_DISTANCE_MILES)
                  => \E j \in 1..Len(Records(hospitalsJson)) :
                        /\ hospitalsJson.data[j].id = rows[i].id
                        /\ NamesNearest(hospitalsJson.data[j], resorts, 1)
    /\ (session = "generate_data" /\ pc = "done") =>
          LET valid_resorts == SelectSeq(data, NotNa)
          IN  \A i \in 1..Len(df_facilities) :
                  (/\ lats[i] # None /\ lons[i] # None
                   /\ MinDistOver(lats[i], lons[i], valid_resorts)
                         <= MAX_CLINIC_DISTANCE)
                  => \E j \in 1..Len(Records(clinicsJson)) :
                        /\ clinicsJson.data[j].ccn = df_facilities[i].ccn
                        /\ NamesNearest(clinicsJson.data[j], valid_resorts, 2)

(***************************************************************************)
(* C19.  The metadata request fails.                                       *)
(***************************************************************************)
\* C19: in generate_data and in fetch_cms_hospitals, a run whose request for
\* the CMS metadata has failed writes no output file: the three output files
\* are as they were when the run started
C19_MetadataFailureWritesNothing ==
    (script \in {"generate_data", "fetch_cms_hospitals"} /\ srcFailed = "metadata")
        => <<resortsJson, clinicsJson, hospitalsJson>> = outAtStart

(***************************************************************************)
(* C20.  An Overpass request fails.                                        *)
(***************************************************************************)
\* C20: a run of fetch_osm_hospitals in which the Overpass request has failed
\* for a state does not write hospitals.json: the file is as it was when the
\* run started
C20_OverpassFailureKeepsHospitals ==
    (script = "fetch_osm_hospitals" /\ srcFailed = "overpass")
        => hospitalsJson = outAtStart[3]

(***************************************************************************)
(* C21.  The exit status of a run that failed.                             *)
(***************************************************************************)
\* the run ended with an exception nothing caught: enrich_resorts opens a
\* resorts.json that is not there, build_resorts parses a cache file that is
\* not valid JSON; every other failure is printed and main returns
Raised ==
    /\ pc = "aborted"
    /\ \/ script = "enrich_resorts"
       \/ script = "build_resorts" /\ "resort" \in corrupt

\* the exit status of the interpreter after "if __name__ == '__main__':
\* main()": 0 when main returns, by a bare "return" as well, 1 after an
\* uncaught exception; None while the run has not ended
exit_status ==
    IF pc \in {"done", "aborted"} THEN (IF Raised THEN 1 ELSE 0) ELSE None

\* C21: a run of generate_data or fetch_cms_hospitals that stopped because
\* the facility list or its metadata could not be fetched ends with an exit
\* status other than that of a successful run (other than 0)
C21_FatalFailureExitsNonZero ==
    (/\ script \in {"generate_data", "fetch_cms_hospitals"}
     /\ pc = "aborted"
     /\ (dlFailed \/ srcFailed = "metadata"))
        => exit_status # 0

(***************************************************************************)
(* C23.  Several resorts at the same least distance.                       *)
(***************************************************************************)
\* the positions of the resorts of rs that no resort of rs is nearer than
AtMinimum(f, rs) ==
    {j \in 1..Len(rs) : DistTo(f.lat, f.lon, rs[j]) = MinDistOver(f.lat, f.lon, rs)}

\* when two or more resorts of the list are at the least distance from a
\* facility, its records name the one that comes first in the list
FirstOfTiedReported(file, in) ==
    \A f \in in.facs :
        LET tied == AtMinimum(f, in.resorts)
        IN  Cardinality(tied) >= 2 =>
              \A i \in RecordsOf(file, f) :
                 \E j \in tied :
                    /\ \A k \in tied : j <= k
                    /\ file.data[i].nearestResort = in.resorts[j].name

\* C23: when two or more resorts are at exactly the same least distance from
\* a facility, the scan reports the one that comes first in the order of the
\* resort list; a later resort at the same distance never displaces it
C23_FirstOfEquallyNearReported ==
    /\ FirstOfTiedReported(clinicsJson, clinicsIn)
    /\ FirstOfTiedReported(hospitalsJson, hospitalsIn)

\* C23 happens: a written clinic lies at the same distance, not 0, from the
\* two resorts of the list, which lie apart, and names the first of them
C23_Witness ==
    /\ clinicsIn.written
    /\ Len(clinicsIn.resorts) = 2
    /\ clinicsIn.resorts[1].lat # clinicsIn.resorts[2].lat
    /\ \E f \in clinicsIn.facs :
         /\ AtMinimum(f, clinicsIn.resorts) = {1, 2}
         /\ DistTo(f.lat, f.lon, clinicsIn.resorts[1]) > 0
         /\ \E i \in RecordsOf(clinicsJson, f) :
              clinicsJson.data[i].nearestResort = clinicsIn.resorts[1].name

(***************************************************************************)
(* C30.  enrich_resorts run on its own output.                             *)
(***************************************************************************)
\* the list out is the list in with nothing but id (where missing),
\* passNetwork and region set: same length, same order, same other fields
OnlyEnriched(in, out) ==
    /\ Len(out) = Len(in)
    /\ \A i \in 1..Len(in) :
         /\ DOMAIN out[i] = DOMAIN in[i]
         /\ out[i].name = in[i].name /\ out[i].state = in[i].state
         /\ out[i].lat = in[i].lat /\ out[i].lon = in[i].lon
         /\ in[i].id # Missing => out[i].id = in[i].id
         /\ out[i].id # Missing
         /\ out[i].passNetwork \in {"epic", "ikon", "both", "independent"}
         /\ out[i].region # Missing

\* C30: a finished run of enrich_resorts leaves the records of resorts.json
\* in their order, each with its id (if it had one), name, state, lat and lon
\* as they were, and a second run on the file the first one wrote writes the
\* same file again
C30_EnrichIdempotent ==
    (session = "enrich_resorts" /\ lastRun.n > 0) =>
        /\ OnlyEnriched(lastRun.in[1].data, lastRun.out[1].data)
        /\ resortsJson = lastRun.out[1]
        /\ prevRun.n > 0 =>
              /\ lastRun.in[1] = prevRun.out[1]
              /\ lastRun.out[1] = prevRun.out[1]

\* C30 happens: enrich_resorts has run twice on a file of two records, one
\* without an id and one with an id not made of its name and state
C30_Witness ==
    /\ session = "enrich_resorts"
    /\ prevRun.n > 0 /\ lastRun.n = 2
    /\ Len(prevRun.in[1].data) = 2
    /\ \E i \in 1..2 : prevRun.in[1].data[i].id = Missing
    /\ \E i \in 1..2 : /\ prevRun.in[1].data[i].id = "vail-co"
                        /\ resortsJson.data[i].id = "vail-co"
    /\ resortsJson.data # prevRun.in[1].data

(***************************************************************************)
(* C29.  Elements of the same name in fetch_osm_resorts.                   *)
(***************************************************************************)
\* the key process_resorts knows a name by
NameKey(name) == strip(lower(Chars(name)))

\* the element has coordinates, lies in the continental US and has a state
\* (its addr:state tag or the reverse geocoder's answer)
UsableElement(el) ==
    LET p == ElementCoords(el)
    IN  /\ Truthy(p.lat) /\ Truthy(p.lon)
        /\ InUsBounds(p.lat, p.lon)
        /\ (el.state # NoName \/ get_state_from_coords(el.rev) # NoName)

\* the first element of the answer that has the name key of element i
FirstNamesake(elements, i) ==
    CHOOSE j \in 1..i :
        /\ elements[j].name # NoName
        /\ NameKey(elements[j].name) = NameKey(elements[i].name)
        /\ \A k \in 1..(j - 1) :
             elements[k].name = NoName
                \/ NameKey(elements[k].name) # NameKey(elements[i].name)

\* C29: of the elements of the Overpass answer that share a name (lower-cased,
\* stripped) only the first one counts: resorts.json holds at most one record
\* per name, it holds the record of the first element of a name when that
\* element has coordinates in the continental US and a state, and it holds
\* no record of that name when the first element has not, whatever the later
\* elements of the name are
C29_FirstNamesakeDecides ==
    (session = "fetch_osm_resorts" /\ lastRun.n > 0) =>
        LET elements == world.resort_overpass.elements
            rs == Records(resortsJson)
        IN  /\ \A a \in 1..Len(rs) : \A b \in 1..Len(rs) :
                 NameKey(rs[a].name) = NameKey(rs[b].name) => a = b
            /\ \A i \in 1..Len(elements) :
                 elements[i].name # NoName =>
                    LET first == elements[FirstNamesake(elements, i)]
                        found == {a \in 1..Len(rs) :
                                    NameKey(rs[a].name) = NameKey(first.name)}
                    IN  IF UsableElement(first)
                        THEN \E a \in found :
                                /\ rs[a].name = first.name
                                /\ rs[a].lat = ElementCoords(first).lat
                        ELSE found = {}

\* C29 happens: the answer held an element without usable coordinates and,
\* after it, an element of the same name in the continental US with a
\* state, and the file written has no record
C29_Witness ==
    /\ session = "fetch_osm_resorts" /\ lastRun.n > 0
    /\ LET elements == world.resort_overpass.elements
       IN  /\ Len(elements) = 2
           /\ elements[1].name # NoName
           /\ NameKey(elements[1].name) = NameKey(elements[2].name)
           /\ ~UsableElement(elements[1])
           /\ UsableElement(elements[2])
    /\ resortsJson.exists /\ resortsJson.data = <<>>

(***************************************************************************)
(* C22.  A request that fails is tried again.                              *)
(***************************************************************************)
\* C22: when a request to an external geocoder has raised an error and the
\* entity (the resort, the facility, the addresses of the batch) is recorded
\* as a failure, at least two requests have been made for it in this run
C22_FailedCallWasRetried ==
    [][/\ (/\ pc \in {"geocode_resorts", "geocode_clinics"}
           /\ nCalls' > nCalls
           /\ lastReq'.outcome = "error") => nCalls' >= nCalls + 2
       /\ (/\ pc = "cms_batch"
           /\ Len(submitted') = Len(submitted) + 1
           /\ submitted'[Len(submitted')].kind = "error")
              => nCalls' >= nCalls + 2]_vars

(***************************************************************************)
(* C24.  The rate-limit delay between two requests to one host.            *)
(***************************************************************************)
\* C24: when generate_data sends a request to the host it sent its last
\* request to (Nominatim in geocode_resorts, the Census geocoder in
\* geocode_clinics), the delay has elapsed after that last request, whatever
\* its outcome was
C24_DelayBetweenRequests ==
    [][(/\ pc \in {"geocode_resorts", "geocode_clinics"}
        /\ nCalls' = nCalls + 1
        /\ lastReq'.host = lastReq.host) => lastReq.slept]_vars

(***************************************************************************)
(* C27.  The batches of fetch_cms_hospitals.                               *)
(***************************************************************************)
\* the ids of the batches sent so far, one after the other
SubmittedIds == Concat([j \in 1..Len(submitted) |-> submitted[j].ids])

\* C27: the batches fetch_cms_hospitals sends are consecutive slices of the
\* list of addresses that need geocoding: put one after the other they are
\* that list, in its order, so every address is sent exactly once; a batch
\* holds at least 1 and at most BATCH_SIZE addresses and only the last one
\* may hold fewer than BATCH_SIZE; one request is made per batch and none
\* when no address needs geocoding
C27_BatchesPartitionTheList ==
    script = "fetch_cms_hospitals" =>
        /\ nCalls = Len(submitted)
        /\ Len(SubmittedIds) <= Len(need_geocode)
        /\ SubmittedIds = SubSeq(need_geocode, 1, Len(SubmittedIds))
        /\ \A j \in 1..Len(submitted) :
             /\ Len(submitted[j].ids) >= 1
             /\ Len(submitted[j].ids) <= BATCH_SIZE
             /\ Len(submitted[j].ids) < BATCH_SIZE =>
                   /\ j = Len(submitted)
                   /\ Len(SubmittedIds) = Len(need_geocode)
        /\ pc \in {"cms_output", "done"} => SubmittedIds = need_geocode
        /\ need_geocode = <<>> => nCalls = 0

\* C27 happens: a run has sent a full batch and then a last, shorter one, and
\* has gone on to write its output
C27_Witness ==
    /\ script = "fetch_cms_hospitals" /\ pc = "done"
    /\ Len(submitted) >= 2
    /\ Len(submitted[Len(submitted)].ids) >= 1
    /\ Len(submitted[1].ids) = BATCH_SIZE
    /\ SubmittedIds = need_geocode

ResortKeysBefore(i) ==
    {CacheKey(us_resorts[j].name, us_resorts[j].state) : j \in 1..(i - 1)}

\* the cache a run gets from a file: empty when the file is not valid JSON
AsLoaded(file, name) ==
    cache' = IF name \in corrupt THEN EmptyCache ELSE file

\* C25: a run that finds a cache file that is not valid JSON (a kill during
\* a save has truncated it) goes on as with an empty cache: the load raises
\* nothing; every key the run comes to is sent to the geocoder again; and the
\* save that follows puts in the place of the file the entries resolved in
\* this run, and nothing else
C25_UnreadableCacheIsEmpty ==
    [][/\ (Stopped /\ runs' = runs + 1 /\ script' = "generate_data") =>
             (pc' = "geocode_resorts" /\ AsLoaded(resortCacheFile, "resort"))
       /\ (pc = "download" /\ pc' # "killed" /\ df_facilities' # <<>>) =>
             (pc' = "geocode_clinics" /\ AsLoaded(facilityCacheFile, "facility"))
       /\ (/\ Stopped /\ runs' = runs + 1 /\ script' = "fetch_cms_hospitals"
           /\ resorts' # <<>>) =>
             (pc' = "cms_download" /\ AsLoaded(hospitalCacheFile, "hospital"))
       /\ (pc' = "geocode_resorts" /\ "resort" \in corrupt') =>
             (calledKeys' = ResortKeysBefore(idx') /\ DOMAIN cache' = calledKeys')
       /\ (pc' = "cms_batch" /\ "hospital" \in corrupt' /\ idx' = 0) =>
             need_geocode' = [i \in 1..Len(rows) |-> rows[i].id]
       /\ ("resort" \in corrupt /\ "resort" \notin corrupt') =>
             (resortCacheFile' = cache' /\ DOMAIN resortCacheFile' = calledKeys')
       /\ ("facility" \in corrupt /\ "facility" \notin corrupt') =>
             /\ facilityCacheFile' = cache'
             /\ DOMAIN facilityCacheFile' \subseteq calledKeys'
             /\ facilityCacheFile' # EmptyCache
       /\ ("hospital" \in corrupt /\ "hospital" \notin corrupt') =>
             /\ hospitalCacheFile' = cache'
             /\ DOMAIN hospitalCacheFile' \subseteq calledKeys']_vars

\* C25 happens: a run of generate_data was killed while it saved the resort
\* cache; the next run has found the truncated file, has sent every resort to
\* Nominatim again, those the killed run had resolved among them, and is
\* about to save
C25_Witness ==
    /\ script = "generate_data" /\ runs >= 2
    /\ pc = "geocode_resorts" /\ idx > Len(us_resorts)
    /\ "resort" \in corrupt
    /\ calledKeys # {}
    /\ calledKeys \subseteq resolvedPrior
    /\ DOMAIN cache = calledKeys

(***************************************************************************)
(* C26.  What a kill during geocode_clinics loses.                         *)
(***************************************************************************)
\* the facilities an earlier, killed run had looked up and whose result no
\* later run can read from the cache file
LostLookups ==
    {k \in resolvedPrior :
        /\ \E i \in 1..Len(DialysisRows) : DialysisRows[i].ccn = k
        /\ k \notin DOMAIN facilityCacheFile \/ "facility" \in corrupt}

\* C26: a kill of generate_data loses the results of at most as many
\* facility lookups as geocode_clinics lets pass between two saves
C26_KillLosesFewLookups ==
    (session = "generate_data" /\ pc = "killed") =>
        Cardinality(LostLookups) <= ProgressEvery

====
